---- MODULE Spec2Model ----
(***************************************************************************)
(* Model of AdvancedLexer (src/main.py): the scanner lex() and the         *)
(* best-first token repair validate_tokens() with its branch queue.        *)
(*                                                                         *)
(* A text is a sequence of characters; a character is a one-character      *)
(* string, a Cyrillic character of a default spelling is written as its    *)
(* code point ("U+0438").  Positions, cursors and log indexes are 0-based  *)
(* as in the source; the element at Python index i of a list s is s[i+1].  *)
(***************************************************************************)
EXTENDS Integers, Sequences, FiniteSets, TLC

VARIABLES input_text, pos, tokens, errors, lexer_errors,
          queue, best, pc, run, result, first_result, scanned,
          class_attrs, peer

\* class_attrs holds the dicts that are attributes of the class AdvancedLexer,
\* which all its objects read; peer is a second AdvancedLexer object, whose
\* validate_tokens() call runs while the first object's does
vars == <<input_text, pos, tokens, errors, lexer_errors,
          queue, best, pc, run, result, first_result, scanned,
          class_attrs, peer>>

(***************************************************************************)
(* Bounds of the model.                                                    *)
(***************************************************************************)
\* The edit budget.  The source sets 15 (src/main.py:340); the search is
\* exponential in the budget, so the model runs it with a small budget and
\* every input family below is sized relative to it.
MAX_EDIT_COUNT == 4
\* Longest free sequence of lexemes given to lex() + validate_tokens().
MaxPieces == 2
\* Longest free character string given to lex() alone.
MaxChars == 3

(***************************************************************************)
(* Characters and the classes the scanner tests.                           *)
(***************************************************************************)
Letters == {"a", "b", "c", "i", "n", "o", "s", "t", "x", "C"}
Digits == {"1", "2", "3", "5"}
Whitespace == {" ", "\t", "\n", "\r"}
\* str.isspace(), and the regex class \s
isspace(c) == c \in Whitespace
\* str.isalpha()
isalpha(c) == c \in Letters
\* str.isdigit(), and the regex class \d
isdigit(c) == c \in Digits
\* str.isalnum()
isalnum(c) == isalpha(c) \/ isdigit(c)
\* the regex word class \w, which decides the boundary \b
IsWordChar(c) == isalnum(c) \/ c = "_"
\* a run that only whitespace ends
RunStopWhitespace == {" ", "\t", "\n", "\r"}

\* the characters that end a generic identifier or number run: [^ \t\n\r:;=+]
RunStop == {" ", "\t", "\n", "\r", ":", ";", "=", "+"}
\* str.lower() of one character
LowerChar(c) == IF c = "C" THEN "c" ELSE c
\* str.lower()
lower(s) == [k \in 1..Len(s) |-> LowerChar(s[k])]

KwConst == <<"c", "o", "n", "s", "t">>
KwI32 == <<"i", "3", "2">>

KEYWORDS == {KwConst, KwI32}
KEYWORD_TO_TOKEN(k) == IF k = KwConst THEN "CONST" ELSE "I32"
KEYWORD_TOLERANCE == 2

TokenKinds == {"CONST", "I32", "COLON", "ASSIGN", "PLUS", "MINUS",
               "SEMICOLON", "IDENTIFIER", "NUMBER", "INVALID"}

\* 'имя_переменной'
DefaultIdentifier == <<"U+0438", "U+043C", "U+044F", "_", "U+043F", "U+0435",
                       "U+0440", "U+0435", "U+043C", "U+0435", "U+043D",
                       "U+043D", "U+043E", "U+0439">>
\* 'число'
DefaultNumber == <<"U+0447", "U+0438", "U+0441", "U+043B", "U+043E">>

\* the dict the class body binds to DEFAULT_TOKEN_VALUES
DEFAULT_TOKEN_VALUES_dict ==
    [token_type \in TokenKinds \ {"INVALID"} |->
        CASE token_type = "CONST" -> KwConst
          [] token_type = "I32" -> KwI32
          [] token_type = "COLON" -> <<":">>
          [] token_type = "ASSIGN" -> <<"=">>
          [] token_type = "IDENTIFIER" -> DefaultIdentifier
          [] token_type = "PLUS" -> <<"+">>
          [] token_type = "MINUS" -> <<"-">>
          [] token_type = "SEMICOLON" -> <<";">>
          [] token_type = "NUMBER" -> DefaultNumber]

\* DEFAULT_TOKEN_VALUES.get(token_type, token_type): a kind without an entry
\* (INVALID) is spelled by its own name
DEFAULT_TOKEN_VALUES(token_type) ==
    IF token_type \in DOMAIN class_attrs.DEFAULT_TOKEN_VALUES
    THEN class_attrs.DEFAULT_TOKEN_VALUES[token_type]
    ELSE <<"I", "N", "V", "A", "L", "I", "D">>

Token(type, value, line, column) ==
    [type |-> type, value |-> value, line |-> line, column |-> column]

LexerError(line, column, message) ==
    [line |-> line, column |-> column, message |-> message]

(***************************************************************************)
(* Scanner.                                                                *)
(***************************************************************************)
\* self.newline_positions: the 0-based offsets of '\n', ascending
newline_positions(text) == {p \in 0..(Len(text) - 1) : text[p + 1] = "\n"}

\* get_line_column that counts the columns of every line from 0
get_line_column_from_zero(text, p) ==
    LET before == {q \in newline_positions(text) : q <= p}
        line_num == Cardinality(before) + 1
    IN  IF line_num > 1
        THEN <<line_num, p - (CHOOSE q \in before : \A r \in before : r <= q) - 1>>
        ELSE <<line_num, p>>

\* get_line_column: bisect_right counts the newlines at offsets <= p
get_line_column(text, p) ==
    LET before == {q \in newline_positions(text) : q <= p}
        line_num == Cardinality(before) + 1
    IN  IF line_num > 1
        THEN <<line_num, p - (CHOOSE q \in before : \A r \in before : r <= q)>>
        ELSE <<line_num, p + 1>>

\* first offset >= p that holds no whitespace (Len(text) when there is none)
RECURSIVE SkipSpace(_, _)
SkipSpace(text, p) ==
    IF p < Len(text) /\ isspace(text[p + 1]) THEN SkipSpace(text, p + 1) ELSE p

\* literal lit at offset p
StartsWith(text, p, lit) ==
    /\ p + Len(lit) <= Len(text)
    /\ \A k \in 1..Len(lit) : text[p + k] = lit[k]

\* keyword pattern lit\b at offset p: the literal, then a word boundary
MatchKeyword(text, p, lit) ==
    /\ StartsWith(text, p, lit)
    /\ \/ p + Len(lit) = Len(text)
       \/ ~IsWordChar(text[p + Len(lit) + 1])

\* end offset of the greedy run [^ \t\n\r:;=+]* that starts at offset p
RECURSIVE RunEnd(_, _)
RunEnd(text, p) ==
    IF p < Len(text) /\ text[p + 1] \notin RunStop THEN RunEnd(text, p + 1) ELSE p

\* TOKEN_REGEX without its last pattern, [^\s]
MatchAtNoInvalid(text, p) ==
    LET c == text[p + 1]
    IN  CASE MatchKeyword(text, p, KwConst) -> <<"CONST", p + 5>>
          [] MatchKeyword(text, p, KwI32) -> <<"I32", p + 3>>
          [] c = ":" -> <<"COLON", p + 1>>
          [] c = "=" -> <<"ASSIGN", p + 1>>
          [] c = "+" -> <<"PLUS", p + 1>>
          [] c = "-" -> <<"MINUS", p + 1>>
          [] c = ";" -> <<"SEMICOLON", p + 1>>
          [] isalpha(c) \/ c = "_" -> <<"IDENTIFIER", RunEnd(text, p + 1)>>
          [] isdigit(c) -> <<"NUMBER", RunEnd(text, p + 1)>>
          [] OTHER -> <<"NOMATCH", p>>

\* TOKEN_REGEX tried in order at offset p (p < Len(text), text[p+1] is not
\* whitespace): <<token_type, end offset of the match>>
MatchAt(text, p) ==
    LET c == text[p + 1]
    IN  CASE MatchKeyword(text, p, KwConst) -> <<"CONST", p + 5>>
          [] MatchKeyword(text, p, KwI32) -> <<"I32", p + 3>>
          [] c = ":" -> <<"COLON", p + 1>>
          [] c = "=" -> <<"ASSIGN", p + 1>>
          [] c = "+" -> <<"PLUS", p + 1>>
          [] c = "-" -> <<"MINUS", p + 1>>
          [] c = ";" -> <<"SEMICOLON", p + 1>>
          [] isalpha(c) \/ c = "_" -> <<"IDENTIFIER", RunEnd(text, p + 1)>>
          [] isdigit(c) -> <<"NUMBER", RunEnd(text, p + 1)>>
          [] ~isspace(c) -> <<"INVALID", p + 1>>
          [] OTHER -> <<"NOMATCH", p>>

IsIdentChar(c) == isalnum(c) \/ c = "_"

\* an IDENTIFIER branch that never turns a cleaned run into a keyword token
LexIdentifierPlain(original, line, column) ==
    LET first_ok == isalpha(original[1]) \/ original[1] = "_"
        rest == SubSeq(original, 2, Len(original))
        valid_chars == (IF first_ok THEN <<original[1]>> ELSE <<>>)
                          \o SelectSeq(rest, IsIdentChar)
        has_errors == ~first_ok \/ Len(valid_chars) # Len(original)
        valid_value == IF valid_chars = <<>> THEN <<"_">> ELSE valid_chars
        first_err == IF first_ok THEN <<>>
                     ELSE <<LexerError(line, column,
                              <<"bad_first_char", <<original[1]>>>>)>>
    IN  IF valid_value \in KEYWORDS /\ ~has_errors
        THEN <<Token(KEYWORD_TO_TOKEN(valid_value), valid_value, line, column),
               first_err \o
                 (IF has_errors
                  THEN <<LexerError(line, column,
                           <<"fixed_keyword", original, valid_value>>)>>
                  ELSE <<>>)>>
        ELSE <<Token("IDENTIFIER", valid_value, line, column),
               first_err \o
                 (IF has_errors
                  THEN <<LexerError(line, column,
                           <<"fixed_identifier", original, valid_value>>)>>
                  ELSE <<>>)>>

\* the IDENTIFIER branch of lex(): <<token, errors appended>>
LexIdentifier(original, line, column) ==
    LET first_ok == isalpha(original[1]) \/ original[1] = "_"
        rest == SubSeq(original, 2, Len(original))
        valid_chars == (IF first_ok THEN <<original[1]>> ELSE <<>>)
                          \o SelectSeq(rest, IsIdentChar)
        has_errors == ~first_ok \/ Len(valid_chars) # Len(original)
        valid_value == IF valid_chars = <<>> THEN <<"_">> ELSE valid_chars
        first_err == IF first_ok THEN <<>>
                     ELSE <<LexerError(line, column,
                              <<"bad_first_char", <<original[1]>>>>)>>
    IN  IF valid_value \in KEYWORDS
        THEN <<Token(KEYWORD_TO_TOKEN(valid_value), valid_value, line, column),
               first_err \o
                 (IF has_errors
                  THEN <<LexerError(line, column,
                           <<"fixed_keyword", original, valid_value>>)>>
                  ELSE <<>>)>>
        ELSE <<Token("IDENTIFIER", valid_value, line, column),
               first_err \o
                 (IF has_errors
                  THEN <<LexerError(line, column,
                           <<"fixed_identifier", original, valid_value>>)>>
                  ELSE <<>>)>>

\* a NUMBER branch that keeps the characters of the run that are not digits
LexNumberKeeping(original, line, column) ==
    LET cleaned == SelectSeq(original, isdigit)
        has_errors == Len(cleaned) # Len(original)
        valid_value == original
    IN  <<Token("NUMBER", valid_value, line, column),
          IF has_errors
          THEN <<LexerError(line, column,
                   <<"fixed_number", original, valid_value>>)>>
          ELSE <<>>>>

\* the NUMBER branch of lex(): <<token, errors appended>>
LexNumber(original, line, column) ==
    LET cleaned == SelectSeq(original, isdigit)
        has_errors == Len(cleaned) # Len(original)
        valid_value == IF cleaned = <<>> THEN <<"0">> ELSE cleaned
    IN  <<Token("NUMBER", valid_value, line, column),
          IF has_errors
          THEN <<LexerError(line, column,
                   <<"fixed_number", original, valid_value>>)>>
          ELSE <<>>>>

\* _fuzzy_match: one greedy pass, the target pointer moves on every step
RECURSIVE FuzzyCount(_, _, _, _, _)
FuzzyCount(s, target, s_idx, t_idx, matches) ==
    IF s_idx < Len(s) /\ t_idx < Len(target)
    THEN IF s[s_idx + 1] = target[t_idx + 1]
         THEN FuzzyCount(s, target, s_idx + 1, t_idx + 1, matches + 1)
         ELSE FuzzyCount(s, target, s_idx, t_idx + 1, matches)
    ELSE matches

\* matches / len(target) >= 0.6, in integers
_fuzzy_match(s, target) ==
    IF s = <<>> \/ target = <<>> THEN FALSE
    ELSE IF s[1] # target[1] THEN FALSE
    ELSE 10 * FuzzyCount(s, target, 0, 0, 0) >= 6 * Len(target)

_is_keyword_candidate(value) ==
    \E keyword \in KEYWORDS :
        /\ ~(Len(value) < Len(keyword) - KEYWORD_TOLERANCE)
        /\ _fuzzy_match(lower(value), keyword)

\* the keywords _correct_keyword can return (the first match in the
\* iteration order of the set KEYWORDS); empty when it returns None
_correct_keyword(value) ==
    {keyword \in KEYWORDS : _fuzzy_match(lower(value), keyword)}

(***************************************************************************)
(* Grammar.                                                                *)
(***************************************************************************)
GrammarStates == {"START", "CONSTIDENTIFIER", "COLON", "DATATYPE",
                  "ASSIGNMENT", "VALUE", "WHOLENUMBER", "SEMICOLON", "END"}

\* a table in which a PLUS sign may stand where a MINUS sign may
TRANSITIONS_dict_signed ==
    [state \in GrammarStates |->
        CASE state = "START" -> ("CONST" :> "CONSTIDENTIFIER")
          [] state = "CONSTIDENTIFIER" -> ("IDENTIFIER" :> "COLON")
          [] state = "COLON" -> ("COLON" :> "DATATYPE")
          [] state = "DATATYPE" -> ("I32" :> "ASSIGNMENT")
          [] state = "ASSIGNMENT" -> ("ASSIGN" :> "VALUE")
          [] state = "VALUE" -> ("NUMBER" :> "SEMICOLON") @@ ("MINUS" :> "WHOLENUMBER")
                                  @@ ("PLUS" :> "WHOLENUMBER")
          [] state = "WHOLENUMBER" -> ("NUMBER" :> "SEMICOLON")
          [] state = "SEMICOLON" -> ("SEMICOLON" :> "END")
          [] OTHER -> <<>>]

\* the dict the class body binds to TRANSITIONS
TRANSITIONS_dict ==
    [state \in GrammarStates |->
        CASE state = "START" -> ("CONST" :> "CONSTIDENTIFIER")
          [] state = "CONSTIDENTIFIER" -> ("IDENTIFIER" :> "COLON")
          [] state = "COLON" -> ("COLON" :> "DATATYPE")
          [] state = "DATATYPE" -> ("I32" :> "ASSIGNMENT")
          [] state = "ASSIGNMENT" -> ("ASSIGN" :> "VALUE")
          [] state = "VALUE" -> ("NUMBER" :> "SEMICOLON") @@ ("MINUS" :> "WHOLENUMBER")
          [] state = "WHOLENUMBER" -> ("NUMBER" :> "SEMICOLON")
          [] state = "SEMICOLON" -> ("SEMICOLON" :> "END")
          [] OTHER -> <<>>]

\* self.TRANSITIONS: TRANSITIONS[state][kind]; a kind outside
\* DOMAIN TRANSITIONS[state] is not allowed in state
TRANSITIONS == class_attrs.TRANSITIONS

\* the kinds in the order in which the dict literals list them
KeyOrder == <<"CONST", "IDENTIFIER", "COLON", "I32", "ASSIGN", "NUMBER", "MINUS",
              "SEMICOLON", "PLUS", "INVALID">>

\* TRANSITIONS.get(state, {}).keys(), in the insertion order of the dict
allowed_keys(state) ==
    IF state \in DOMAIN TRANSITIONS
    THEN SelectSeq(KeyOrder, LAMBDA kind : kind \in DOMAIN TRANSITIONS[state])
    ELSE <<>>

(***************************************************************************)
(* Branches and the priority queue.                                        *)
(***************************************************************************)
Branch(toks, index, current_state, edit_count, changes) ==
    [tokens |-> toks, index |-> index, current_state |-> current_state,
     edit_count |-> edit_count, changes |-> changes]

\* an order of the entries that lets the entry put last win a tie
BranchLtOrEqual(a, b) == a.edit_count <= b.edit_count

\* Order of the queue entries (edit_count, branch): every entry is put with
\* its branch's edit_count as priority, two distinct Branch objects are never
\* equal, so entries of equal priority fall back on Branch.__lt__, which is
\* false for them in both directions.
BranchLt(a, b) == a.edit_count < b.edit_count

\* heapq._siftdown: move the item at pos up until its parent is not greater
RECURSIVE SiftDownLoop(_, _, _, _)
SiftDownLoop(heap, newitem, startpos, p) ==
    IF p > startpos
    THEN LET parentpos == (p - 1) \div 2
             parent == heap[parentpos + 1]
         IN  IF BranchLt(newitem, parent)
             THEN SiftDownLoop([heap EXCEPT ![p + 1] = parent],
                               newitem, startpos, parentpos)
             ELSE [heap EXCEPT ![p + 1] = newitem]
    ELSE [heap EXCEPT ![p + 1] = newitem]

\* heapq._siftup: bubble the smaller child up to a leaf, then sift the item down
RECURSIVE SiftUpLoop(_, _, _, _)
SiftUpLoop(heap, newitem, startpos, p) ==
    LET endpos == Len(heap)
        childpos == 2 * p + 1
        rightpos == childpos + 1
        pick == IF rightpos < endpos
                   /\ ~BranchLt(heap[childpos + 1], heap[rightpos + 1])
                THEN rightpos ELSE childpos
    IN  IF childpos < endpos
        THEN SiftUpLoop([heap EXCEPT ![p + 1] = heap[pick + 1]],
                        newitem, startpos, pick)
        ELSE SiftDownLoop(heap, newitem, startpos, p)

\* queue.put((branch.edit_count, branch)): heapq.heappush
put(heap, branch) ==
    SiftDownLoop(Append(heap, branch), branch, 0, Len(heap))

\* the entry queue.get() returns: the root of the heap
get_item(heap) == heap[1]

\* the queue after queue.get(): heapq.heappop
get_rest(heap) ==
    LET lastelt == heap[Len(heap)]
        shorter == SubSeq(heap, 1, Len(heap) - 1)
    IN  IF shorter = <<>> THEN <<>>
        ELSE SiftUpLoop([shorter EXCEPT ![1] = lastelt], lastelt, 0, 0)

\* the branches of a list put one after the other
RECURSIVE put_all(_, _)
put_all(heap, branches) ==
    IF branches = <<>> THEN heap
    ELSE put_all(put(heap, Head(branches)), Tail(branches))

(***************************************************************************)
(* List operations of the branch expansions.                               *)
(***************************************************************************)
\* del lst[i]
ListDelete(lst, i) == SubSeq(lst, 1, i) \o SubSeq(lst, i + 2, Len(lst))
\* lst.insert(i, x)
ListInsert(lst, i, x) == SubSeq(lst, 1, i) \o <<x>> \o SubSeq(lst, i + 1, Len(lst))
\* lst[i] = x
ListSet(lst, i, x) == [lst EXCEPT ![i + 1] = x]

\* create_token that spells a synthetic token by its kind name instead of
\* looking up DEFAULT_TOKEN_VALUES
create_token_bare(token_type, reference_token, insert_after) ==
    Token(token_type, <<token_type>>, reference_token.line,
          IF insert_after
          THEN reference_token.column + Len(reference_token.value)
          ELSE reference_token.column)

\* create_token(token_type, reference_token, insert_after)
create_token(token_type, reference_token, insert_after) ==
    IF insert_after
    THEN Token(token_type, DEFAULT_TOKEN_VALUES(token_type), reference_token.line,
               reference_token.column + Len(reference_token.value))
    ELSE Token(token_type, DEFAULT_TOKEN_VALUES(token_type), reference_token.line,
               reference_token.column)

\* the budget test written with one edit too many
WithinBudgetOffByOne(branches) ==
    SelectSeq(branches, LAMBDA b : b.edit_count <= MAX_EDIT_COUNT + 1)

\* the branches of a list that are within the budget
WithinBudget(branches) ==
    SelectSeq(branches, LAMBDA b : b.edit_count <= MAX_EDIT_COUNT)

\* _process_transitions that writes the synthetic token over the last token
_process_transitions_overwriting(branch) ==
    LET allowed == allowed_keys(branch.current_state)
        line == IF branch.tokens # <<>>
                THEN branch.tokens[Len(branch.tokens)].line ELSE 1
        column == IF branch.tokens # <<>>
                  THEN branch.tokens[Len(branch.tokens)].column
                         + Len(branch.tokens[Len(branch.tokens)].value)
                  ELSE 1
        child(insert_type) ==
            LET insert_token == Token(insert_type, DEFAULT_TOKEN_VALUES(insert_type),
                                      line, column)
                new_tokens == IF branch.tokens = <<>> THEN <<insert_token>>
                              ELSE ListSet(branch.tokens, Len(branch.tokens) - 1,
                                           insert_token)
            IN  Branch(new_tokens, Len(new_tokens),
                       TRANSITIONS[branch.current_state][insert_type],
                       branch.edit_count + 1,
                       Append(branch.changes,
                              <<"insert", Len(new_tokens) - 1, insert_token>>))
    IN  WithinBudget([k \in 1..Len(allowed) |-> child(allowed[k])])

\* _process_transitions: the branches put, in order (end of tokens, mid-statement)
_process_transitions(branch) ==
    LET allowed == allowed_keys(branch.current_state)
        line == IF branch.tokens # <<>>
                THEN branch.tokens[Len(branch.tokens)].line ELSE 1
        column == IF branch.tokens # <<>>
                  THEN branch.tokens[Len(branch.tokens)].column
                         + Len(branch.tokens[Len(branch.tokens)].value)
                  ELSE 1
        child(insert_type) ==
            LET insert_token == Token(insert_type, DEFAULT_TOKEN_VALUES(insert_type),
                                      line, column)
                new_tokens == Append(branch.tokens, insert_token)
            IN  Branch(new_tokens, Len(new_tokens),
                       TRANSITIONS[branch.current_state][insert_type],
                       branch.edit_count + 1,
                       Append(branch.changes,
                              <<"insert", Len(new_tokens) - 1, insert_token>>))
    IN  WithinBudget([k \in 1..Len(allowed) |-> child(allowed[k])])

\* _handle_valid_transition that keeps edit_count at the end of a declaration
_handle_valid_transition_keep_count(branch) ==
    LET current_token == branch.tokens[branch.index + 1]
        next_state == TRANSITIONS[branch.current_state][current_token.type]
        new_state == IF next_state = "END" THEN "START" ELSE next_state
    IN  Branch(branch.tokens, branch.index + 1, new_state, branch.edit_count,
               branch.changes)

\* _handle_valid_transition that leaves the branch in END after a semicolon
_handle_valid_transition_no_restart(branch) ==
    LET current_token == branch.tokens[branch.index + 1]
        next_state == TRANSITIONS[branch.current_state][current_token.type]
        new_edit_count == IF next_state # "END" THEN branch.edit_count ELSE 0
    IN  Branch(branch.tokens, branch.index + 1, next_state, new_edit_count,
               branch.changes)

\* _handle_valid_transition that begins a new log with every declaration
_handle_valid_transition_fresh_log(branch) ==
    LET current_token == branch.tokens[branch.index + 1]
        next_state == TRANSITIONS[branch.current_state][current_token.type]
        new_edit_count == IF next_state # "END" THEN branch.edit_count ELSE 0
        new_state == IF next_state = "END" THEN "START" ELSE next_state
    IN  Branch(branch.tokens, branch.index + 1, new_state, new_edit_count,
               IF next_state # "END" THEN branch.changes ELSE <<>>)

\* _handle_valid_transition: the branch put
_handle_valid_transition(branch) ==
    LET current_token == branch.tokens[branch.index + 1]
        next_state == TRANSITIONS[branch.current_state][current_token.type]
        new_edit_count == IF next_state # "END" THEN branch.edit_count ELSE 0
        new_state == IF next_state = "END" THEN "START" ELSE next_state
    IN  Branch(branch.tokens, branch.index + 1, new_state, new_edit_count,
               branch.changes)

\* _generate_delete_branch that logs the deletion and steps over the token
\* without removing it
_generate_delete_branch_keep(branch, current_token) ==
    WithinBudget(<<Branch(branch.tokens, branch.index + 1, branch.current_state,
                          branch.edit_count + 1,
                          Append(branch.changes,
                                 <<"delete", branch.index, current_token>>))>>)

\* _generate_delete_branch without the budget test
_generate_delete_branch_unbudgeted(branch, current_token) ==
    <<Branch(ListDelete(branch.tokens, branch.index),
             branch.index, branch.current_state,
             branch.edit_count + 1,
             Append(branch.changes,
                    <<"delete", branch.index, current_token>>))>>

\* _generate_delete_branch that moves the cursor on after the deletion
_generate_delete_branch_stepping(branch, current_token) ==
    WithinBudget(<<Branch(ListDelete(branch.tokens, branch.index),
                          branch.index + 1, branch.current_state,
                          branch.edit_count + 1,
                          Append(branch.changes,
                                 <<"delete", branch.index, current_token>>))>>)

\* _generate_delete_branch: the branches put
_generate_delete_branch(branch, current_token) ==
    WithinBudget(<<Branch(ListDelete(branch.tokens, branch.index),
                          branch.index, branch.current_state,
                          branch.edit_count + 1,
                          Append(branch.changes,
                                 <<"delete", branch.index, current_token>>))>>)

\* _generate_replace_branches that moves the cursor two tokens on
_generate_replace_branches_skip(branch, current_token, allowed) ==
    LET child(replace_type) ==
            LET new_token == create_token(replace_type, current_token, FALSE)
            IN  Branch(ListSet(branch.tokens, branch.index, new_token),
                       branch.index + 2,
                       TRANSITIONS[branch.current_state][replace_type],
                       branch.edit_count + 1,
                       Append(branch.changes,
                              <<"replace", branch.index, current_token, new_token>>))
    IN  WithinBudget([k \in 1..Len(allowed) |-> child(allowed[k])])

\* _generate_replace_branches that leaves the cursor on the new token
_generate_replace_branches_in_place(branch, current_token, allowed) ==
    LET child(replace_type) ==
            LET new_token == create_token(replace_type, current_token, FALSE)
            IN  Branch(ListSet(branch.tokens, branch.index, new_token),
                       branch.index,
                       branch.current_state,
                       branch.edit_count + 1,
                       Append(branch.changes,
                              <<"replace", branch.index, current_token, new_token>>))
    IN  WithinBudget([k \in 1..Len(allowed) |-> child(allowed[k])])

\* _generate_replace_branches: the branches put, in order
_generate_replace_branches(branch, current_token, allowed) ==
    LET child(replace_type) ==
            LET new_token == create_token(replace_type, current_token, FALSE)
            IN  Branch(ListSet(branch.tokens, branch.index, new_token),
                       branch.index + 1,
                       TRANSITIONS[branch.current_state][replace_type],
                       branch.edit_count + 1,
                       Append(branch.changes,
                              <<"replace", branch.index, current_token, new_token>>))
    IN  WithinBudget([k \in 1..Len(allowed) |-> child(allowed[k])])

\* _generate_insert_branches that logs the index after the inserted token
_generate_insert_branches_log_after(branch, current_token, allowed) ==
    LET child(insert_type) ==
            LET insert_token == create_token(insert_type, current_token, FALSE)
            IN  Branch(ListInsert(branch.tokens, branch.index, insert_token),
                       branch.index + 1,
                       TRANSITIONS[branch.current_state][insert_type],
                       branch.edit_count + 1,
                       Append(branch.changes,
                              <<"insert", branch.index + 1, insert_token>>))
    IN  WithinBudget([k \in 1..Len(allowed) |-> child(allowed[k])])

\* _generate_insert_branches that puts the new token behind the offending one
_generate_insert_branches_behind(branch, current_token, allowed) ==
    LET child(insert_type) ==
            LET insert_token == create_token(insert_type, current_token, FALSE)
            IN  Branch(ListInsert(branch.tokens, branch.index + 1, insert_token),
                       branch.index + 1,
                       TRANSITIONS[branch.current_state][insert_type],
                       branch.edit_count + 1,
                       Append(branch.changes,
                              <<"insert", branch.index, insert_token>>))
    IN  WithinBudget([k \in 1..Len(allowed) |-> child(allowed[k])])

\* _generate_insert_branches that does not count the insertion as an edit
_generate_insert_branches_uncounted(branch, current_token, allowed) ==
    LET child(insert_type) ==
            LET insert_token == create_token(insert_type, current_token, FALSE)
            IN  Branch(ListInsert(branch.tokens, branch.index, insert_token),
                       branch.index + 1,
                       TRANSITIONS[branch.current_state][insert_type],
                       branch.edit_count,
                       Append(branch.changes,
                              <<"insert", branch.index, insert_token>>))
    IN  WithinBudget([k \in 1..Len(allowed) |-> child(allowed[k])])

\* _generate_insert_branches: the branches put, in order
_generate_insert_branches(branch, current_token, allowed) ==
    LET child(insert_type) ==
            LET insert_token == create_token(insert_type, current_token, FALSE)
            IN  Branch(ListInsert(branch.tokens, branch.index, insert_token),
                       branch.index + 1,
                       TRANSITIONS[branch.current_state][insert_type],
                       branch.edit_count + 1,
                       Append(branch.changes,
                              <<"insert", branch.index, insert_token>>))
    IN  WithinBudget([k \in 1..Len(allowed) |-> child(allowed[k])])

\* repair branches whose deletion is made in the list of the branch itself:
\* the replacements and insertions are then built from the shortened list
_generate_repair_branches_shared(branch, current_token, allowed) ==
    LET shortened == [branch EXCEPT
                         !.tokens = ListDelete(branch.tokens, branch.index)]
    IN  _generate_delete_branch(branch, current_token)
            \o (IF branch.index < Len(shortened.tokens)
                THEN _generate_replace_branches(shortened, current_token, allowed)
                ELSE <<>>)
            \o _generate_insert_branches(shortened, current_token, allowed)

\* _generate_repair_branches: delete, then replace, then insert
_generate_repair_branches(branch, current_token, allowed) ==
    _generate_delete_branch(branch, current_token)
        \o _generate_replace_branches(branch, current_token, allowed)
        \o _generate_insert_branches(branch, current_token, allowed)

\* one diagnostic of _generate_errors_from_changes
ErrorOfChange(change) ==
    CASE change[1] = "delete" ->
            LexerError(change[3].line, change[3].column,
                       <<"delete", change[3].value>>)
      [] change[1] = "replace" ->
            LexerError(change[3].line, change[3].column,
                       <<"replace", change[3].value, change[4].value>>)
      [] change[1] = "insert" ->
            LexerError(change[3].line, change[3].column,
                       <<"insert", change[3].value>>)

\* the diagnostics built from the last entry back to the first
_generate_errors_from_changes_reversed(changes) ==
    [k \in 1..Len(changes) |-> ErrorOfChange(changes[Len(changes) + 1 - k])]

_generate_errors_from_changes(changes) ==
    [k \in 1..Len(changes) |-> ErrorOfChange(changes[k])]

\* the fatal diagnostic of _finalize_validation
BudgetExceeded == LexerError(0, 0, <<"budget", MAX_EDIT_COUNT>>)

\* _finalize_validation(best) on an object that holds self_tokens and
\* self_errors: <<self.tokens afterwards, (tokens, errors) returned>>
_finalize_validation_on(self_tokens, self_errors, b) ==
    IF b # <<>>
    THEN <<b[1].tokens,
           [tokens |-> b[1].tokens,
            errors |-> _generate_errors_from_changes(b[1].changes)]>>
    ELSE <<self_tokens,
           [tokens |-> self_tokens, errors |-> Append(self_errors, BudgetExceeded)]>>

\* _finalize_validation(best): <<self.tokens afterwards, (tokens, errors) returned>>;
\* best is <<>> for None and <<branch>> otherwise
_finalize_validation(b) ==
    IF b # <<>>
    THEN <<b[1].tokens,
           [tokens |-> b[1].tokens,
            errors |-> _generate_errors_from_changes(b[1].changes)]>>
    ELSE <<tokens,
           [tokens |-> tokens, errors |-> Append(errors, BudgetExceeded)]>>

(***************************************************************************)
(* Input texts.                                                            *)
(***************************************************************************)
\* the pieces joined by single spaces
RECURSIVE Join(_)
Join(pieces) ==
    IF pieces = <<>> THEN <<>>
    ELSE IF Len(pieces) = 1 THEN pieces[1]
    ELSE pieces[1] \o <<" ">> \o Join(Tail(pieces))

\* n copies of piece
Repeat(piece, n) == [k \in 1..n |-> piece]

\* const x : i32 = 5 ;
DeclPieces == <<KwConst, <<"x">>, <<":">>, KwI32, <<"=">>, <<"5">>, <<";">>>>
\* const x : i32 = - 5 ;
DeclMinusPieces == <<KwConst, <<"x">>, <<":">>, KwI32, <<"=">>, <<"-">>, <<"5">>, <<";">>>>
\* x = 5 ;  (a declaration without CONST, COLON and I32)
ShortDeclPieces == <<<<"x">>, <<"=">>, <<"5">>, <<";">>>>

PieceSet == {KwConst, KwI32, <<"x">>, <<"5">>, <<":">>, <<"=">>, <<";">>,
             <<"-">>, <<"+">>, <<"@">>}

\* zero or more complete declarations
ValidInputs ==
    {<<>>, DeclPieces, DeclMinusPieces, DeclPieces \o DeclMinusPieces}

\* a declaration with one required token left out
OmittedInputs ==
    {ListDelete(DeclPieces, i) : i \in 0..6}
        \cup {ListDelete(DeclMinusPieces, i) : i \in (0..7) \ {5}}

\* a declaration cut off after its first k tokens
PrefixInputs == {SubSeq(DeclPieces, 1, k) : k \in 1..6}

\* more tokens than the budget, none of a kind the grammar has a use for
GarbageInputs ==
    {Repeat(<<"@">>, MAX_EDIT_COUNT + 1),
     Repeat(<<"+">>, MAX_EDIT_COUNT + 1),
     Repeat(<<"@">>, MAX_EDIT_COUNT) \o <<<<"+">>>>}

\* as GarbageInputs, led by a token the scanner corrects
CorrectedGarbageInputs ==
    {<<<<"1", "x">>>> \o Repeat(<<"@">>, MAX_EDIT_COUNT),
     <<<<"a", "-", "b">>>> \o Repeat(<<"@">>, MAX_EDIT_COUNT + 1)}

\* several declarations in need of repair, each ended by its own semicolon
MultiInputs ==
    {ShortDeclPieces \o ShortDeclPieces,
     ListDelete(DeclPieces, 6) \o DeclPieces,
     ListDelete(DeclPieces, 6) \o SubSeq(DeclPieces, 1, 4) \o <<<<";">>>>,
     DeclPieces \o <<KwConst>>,
     <<KwConst, KwConst, KwI32, <<";">>, <<"@">>>>,
     <<<<"@">>>> \o DeclPieces \o <<<<"@">>, <<"c", "o", "n", "@", "s", "t">>>>}

\* const x : i32 = + 5 ;
DeclPlusPieces == <<KwConst, <<"x">>, <<":">>, KwI32, <<"=">>, <<"+">>, <<"5">>, <<";">>>>

\* declarations with a sign written out
SignedInputs == {DeclPlusPieces, DeclMinusPieces \o DeclPlusPieces}

\* one well-formed declaration as it is typed: a name, a number and the
\* whitespace (possibly none) put around the punctuation
WellFormedDecl(name, number, gap) ==
    KwConst \o <<" ">> \o name \o gap \o <<":">> \o gap \o KwI32 \o gap
        \o <<"=">> \o gap \o number \o gap \o <<";">>

DeclNames == {<<"x">>, <<"a", "b">>, <<"_", "c", "5">>}
DeclNumbers == {<<"5">>, <<"1", "2">>}
DeclGaps == {<<>>, <<" ">>, <<"\n", "\t">>}

WellFormedTexts ==
    {WellFormedDecl(name, number, gap) :
        name \in DeclNames, number \in DeclNumbers, gap \in DeclGaps}
        \cup {KwConst \o <<" ", "x", " ", ":", " ">> \o KwI32
                 \o <<" ", "=", " ", "5", ";">>}

\* a signed declaration cut off after its sign or after its number
SignedPrefixInputs == {SubSeq(DeclMinusPieces, 1, k) : k \in 6..7}

\* a declaration without its SEMICOLON whose keyword the scanner corrects
CorrectedDeclInputs ==
    {<<<<"c", "o", "n", "@", "s", "t">>>> \o SubSeq(DeclPieces, 2, 6)}

\* a declaration that lost its first tokens
SuffixInputs == {SubSeq(DeclPieces, k, 7) : k \in 5..7}

\* const x : i32 = x 5 ;  (a stray name: dropping it and turning it into
\* a minus sign are two repairs of one edit each)
TiedInputs == {ListInsert(DeclPieces, 5, <<"x">>)}

\* every sequence of at most MaxPieces lexemes
FreeInputs == UNION {[1..n -> PieceSet] : n \in 0..MaxPieces}

ValidateTexts ==
    {Join(p) : p \in ValidInputs \cup OmittedInputs \cup PrefixInputs
                       \cup GarbageInputs \cup CorrectedGarbageInputs
                       \cup MultiInputs \cup SignedInputs \cup SuffixInputs
                       \cup TiedInputs \cup SignedPrefixInputs
                       \cup CorrectedDeclInputs
                       \cup FreeInputs}
        \cup WellFormedTexts

\* the characters of the free texts given to the scanner alone
LexAlphabet == {"c", "o", "5", "_", "-", ":", "@", " ", "\n"}

LexWords ==
    {KwConst, KwI32, <<"c", "n", "o", "s", "t">>,
     <<"b", "a", "n", "a", "n", "a">>, <<"C", "o", "n", "s", "t">>,
     <<"c", "o", "n", "s", "t", "x">>, <<"c", "o", "n", "@", "s", "t">>,
     <<"i", "3">>, <<"c", "o", "s", "t">>, <<"c", "x", "x", "x", "x">>,
     <<"c", "o", "n", "s", "t", "a", "n", "t">>,
     <<"5", "x", "5">>, <<"x", "\n", " ", "x">>, <<"\t", "x", "\r", "\n", "=", "+", ";">>}

LexTexts ==
    LexWords \cup UNION {[1..n -> LexAlphabet] : n \in 0..MaxChars}

(***************************************************************************)
(* State machine.                                                          *)
(***************************************************************************)
\* the calls of validate_tokens() the caller makes on one AdvancedLexer
MaxRuns == 2

\* the class attributes once the class body has run
ClassBody ==
    [TRANSITIONS |-> TRANSITIONS_dict,
     DEFAULT_TOKEN_VALUES |-> DEFAULT_TOKEN_VALUES_dict]

\* no second object
NoPeer ==
    [tokens |-> <<>>, errors |-> <<>>, scanned |-> <<>>, queue |-> <<>>,
     best |-> <<>>, pc |-> "none", result |-> [tokens |-> <<>>, errors |-> <<>>]]

\* AdvancedLexer.__init__ on the text
InitWith(texts) ==
    /\ input_text \in texts
    /\ pos = 0
    /\ tokens = <<>>
    /\ errors = <<>>
    /\ lexer_errors = <<>>
    /\ queue = <<>>
    /\ best = <<>>
    /\ pc = "lex"
    /\ run = 0
    /\ result = [tokens |-> <<>>, errors |-> <<>>]
    /\ first_result = [tokens |-> <<>>, errors |-> <<>>]
    /\ scanned = <<>>
    /\ class_attrs = ClassBody
    /\ peer = NoPeer

Init == InitWith(ValidateTexts)

InitLex == InitWith(LexTexts)

\* what one iteration of the loop of lex() does at the character at
\* start_pos: <<self.tokens, self.errors, self.pos>> afterwards
LexIteration(text, start_pos, toks, errs) ==
    LET lc == get_line_column(text, start_pos)
        m == MatchAt(text, start_pos)
        value == SubSeq(text, start_pos + 1, m[2])
        out == CASE m[1] = "IDENTIFIER" -> LexIdentifier(value, lc[1], lc[2])
                 [] m[1] = "NUMBER" -> LexNumber(value, lc[1], lc[2])
                 [] m[1] = "NOMATCH" -> <<>>
                 [] OTHER -> <<Token(m[1], value, lc[1], lc[2]), <<>>>>
    IN  IF m[1] = "NOMATCH"
        THEN <<toks,
               Append(errs, LexerError(lc[1], lc[2],
                                <<"unhandled_char", <<text[start_pos + 1]>>>>)),
               start_pos + 1>>
        ELSE <<Append(toks, out[1]), errs \o out[2], m[2]>>

\* lex() run from offset p to its return: <<self.tokens, self.errors>>
RECURSIVE lex(_, _, _, _)
lex(text, p, toks, errs) ==
    LET start_pos == SkipSpace(text, p)
    IN  IF start_pos >= Len(text) THEN <<toks, errs>>
        ELSE LET after == LexIteration(text, start_pos, toks, errs)
             IN  lex(text, after[3], after[1], after[2])

\* one iteration of the loop of lex() that finds a character to scan
LexStep ==
    /\ pc = "lex"
    /\ pos < Len(input_text)
    /\ LET start_pos == SkipSpace(input_text, pos)
       IN  /\ start_pos < Len(input_text)
           /\ LET after == LexIteration(input_text, start_pos, tokens, errors)
              IN  /\ tokens' = after[1]
                  /\ errors' = after[2]
                  /\ pos' = after[3]
    /\ UNCHANGED <<input_text, lexer_errors, queue, best, pc, run, result,
                   first_result, scanned, class_attrs, peer>>

\* the loop of lex() ends (after skipping trailing whitespace) and lex()
\* returns self.tokens, self.errors
LexReturn ==
    /\ pc = "lex"
    /\ SkipSpace(input_text, pos) >= Len(input_text)
    /\ pos' = SkipSpace(input_text, pos)
    /\ lexer_errors' = errors
    /\ scanned' = tokens
    /\ pc' = "lexed"
    /\ UNCHANGED <<input_text, tokens, errors, queue, best, run, result,
                   first_result, class_attrs, peer>>

\* validate_tokens() is called: the queue holds the root branch
ValidateStart ==
    /\ pc \in {"lexed", "done"}
    /\ run < MaxRuns
    /\ run' = run + 1
    /\ first_result' = IF run = 1 THEN result ELSE first_result
    /\ queue' = put(<<>>, Branch(tokens, 0, "START", 0, <<>>))
    /\ best' = <<>>
    /\ pc' = "validate"
    /\ UNCHANGED <<input_text, pos, tokens, errors, lexer_errors, result, scanned,
                   class_attrs, peer>>

\* the test that ends the loop once a candidate is recorded
BestFound == best # <<>> /\ best[1].edit_count <= MAX_EDIT_COUNT

AtEnd(branch) == branch.index >= Len(branch.tokens)

\* a candidate test that also takes a declaration waiting for its semicolon
IsAcceptingSemicolon(branch) ==
    branch.current_state \in {"END", "START", "SEMICOLON"}

\* a candidate test that takes only a branch that stands in END
IsAcceptingEndOnly(branch) == branch.current_state = "END"

\* the states in which a branch at the end of its tokens is a candidate
IsAccepting(branch) == branch.current_state \in {"END", "START"}

\* a test that takes no token as allowed once the branch has made an edit
IsAllowedUnlessEdited(branch) ==
    /\ branch.changes = <<>>
    /\ branch.tokens[branch.index + 1].type
           \in DOMAIN TRANSITIONS[branch.current_state]

IsAllowed(branch) ==
    branch.tokens[branch.index + 1].type \in DOMAIN TRANSITIONS[branch.current_state]

\* what the loop iterations leave alone
LoopFrame ==
    UNCHANGED <<input_text, pos, tokens, errors, lexer_errors, pc, run, result,
                first_result, scanned, class_attrs, peer>>

\* iteration: end of tokens in START or END, the branch is a candidate
RecordCandidate ==
    /\ pc = "validate" /\ queue # <<>> /\ ~BestFound
    /\ LET branch == get_item(queue)
       IN  /\ AtEnd(branch)
           /\ IsAccepting(branch)
           /\ best' = IF best = <<>> \/ branch.edit_count < best[1].edit_count
                      THEN <<branch>> ELSE best
    /\ queue' = get_rest(queue)
    /\ LoopFrame

\* iteration: end of tokens in the middle of a declaration
ProcessTransitions ==
    /\ pc = "validate" /\ queue # <<>> /\ ~BestFound
    /\ LET branch == get_item(queue)
       IN  /\ AtEnd(branch)
           /\ ~IsAccepting(branch)
           /\ queue' = put_all(get_rest(queue), _process_transitions(branch))
    /\ UNCHANGED best
    /\ LoopFrame

\* iteration: the token at the cursor is allowed
HandleValidTransition ==
    /\ pc = "validate" /\ queue # <<>> /\ ~BestFound
    /\ LET branch == get_item(queue)
       IN  /\ ~AtEnd(branch)
           /\ IsAllowed(branch)
           /\ queue' = put(get_rest(queue), _handle_valid_transition(branch))
    /\ UNCHANGED best
    /\ LoopFrame

\* iteration: the token at the cursor is not allowed
GenerateRepairBranches ==
    /\ pc = "validate" /\ queue # <<>> /\ ~BestFound
    /\ LET branch == get_item(queue)
       IN  /\ ~AtEnd(branch)
           /\ ~IsAllowed(branch)
           /\ queue' = put_all(get_rest(queue),
                  _generate_repair_branches(branch,
                      branch.tokens[branch.index + 1],
                      allowed_keys(branch.current_state)))
    /\ UNCHANGED best
    /\ LoopFrame

\* a return that also makes END stand for START in the table of the class
FinalizeMendingTable ==
    /\ tokens' = _finalize_validation(best)[1]
    /\ result' = _finalize_validation(best)[2]
    /\ pc' = "done"
    /\ class_attrs' = [class_attrs EXCEPT
                         !.TRANSITIONS["END"] = class_attrs.TRANSITIONS["START"]]
    /\ UNCHANGED <<input_text, pos, errors, lexer_errors, best, run,
                   first_result, scanned, peer>>

\* what validate_tokens() does on leaving the loop: _finalize_validation(best)
Finalize ==
    /\ tokens' = _finalize_validation(best)[1]
    /\ result' = _finalize_validation(best)[2]
    /\ pc' = "done"
    /\ UNCHANGED <<input_text, pos, errors, lexer_errors, best, run,
                   first_result, scanned, class_attrs, peer>>

\* iteration: a branch is taken off the queue, a candidate is recorded: break
BreakOnBest ==
    /\ pc = "validate" /\ queue # <<>> /\ BestFound
    /\ queue' = get_rest(queue)
    /\ Finalize

\* the queue is empty: the loop ends
QueueEmpty ==
    /\ pc = "validate" /\ queue = <<>>
    /\ UNCHANGED queue
    /\ Finalize

(***************************************************************************)
(* validate_tokens() as a function, and the call on a second object.       *)
(***************************************************************************)
\* the test that ends the loop, on the candidate b
BestFoundIn(b) == b # <<>> /\ b[1].edit_count <= MAX_EDIT_COUNT

\* one iteration of the loop that does not break, on the local queue q and
\* the local candidate b: the two afterwards
LoopIteration(q, b) ==
    LET branch == get_item(q)
    IN  IF AtEnd(branch)
        THEN IF IsAccepting(branch)
             THEN [queue |-> get_rest(q),
                   best |-> IF b = <<>> \/ branch.edit_count < b[1].edit_count
                            THEN <<branch>> ELSE b]
             ELSE [queue |-> put_all(get_rest(q), _process_transitions(branch)),
                   best |-> b]
        ELSE IF IsAllowed(branch)
             THEN [queue |-> put(get_rest(q), _handle_valid_transition(branch)),
                   best |-> b]
             ELSE [queue |-> put_all(get_rest(q),
                                _generate_repair_branches(branch,
                                    branch.tokens[branch.index + 1],
                                    allowed_keys(branch.current_state))),
                   best |-> b]

\* the loop run to its end: the candidate it leaves
RECURSIVE RunLoop(_, _)
RunLoop(q, b) ==
    IF q = <<>> \/ BestFoundIn(b) THEN b
    ELSE RunLoop(LoopIteration(q, b).queue, LoopIteration(q, b).best)

\* validate_tokens() run with nothing else running, on an object that holds
\* self_tokens and self_errors: the (tokens, errors) it returns
validate_tokens(self_tokens, self_errors) ==
    _finalize_validation_on(self_tokens, self_errors,
        RunLoop(put(<<>>, Branch(self_tokens, 0, "START", 0, <<>>)), <<>>))[2]

\* a second object after its lex() on text
PeerOn(text) ==
    [tokens |-> lex(text, 0, <<>>, <<>>)[1],
     errors |-> lex(text, 0, <<>>, <<>>)[2],
     scanned |-> lex(text, 0, <<>>, <<>>)[1],
     queue |-> <<>>, best |-> <<>>, pc |-> "lexed",
     result |-> [tokens |-> <<>>, errors |-> <<>>]]

\* what a step of the second object's call leaves alone
PeerFrame ==
    UNCHANGED <<input_text, pos, tokens, errors, lexer_errors, queue, best, pc,
                run, result, first_result, scanned, class_attrs>>

\* validate_tokens() is called on the second object
PeerValidateStart ==
    /\ peer.pc = "lexed"
    /\ peer' = [peer EXCEPT
                  !.queue = put(<<>>, Branch(peer.tokens, 0, "START", 0, <<>>)),
                  !.best = <<>>,
                  !.pc = "validate"]
    /\ PeerFrame

\* an iteration of the second object's loop that does not break
PeerIteration ==
    /\ peer.pc = "validate"
    /\ peer.queue # <<>> /\ ~BestFoundIn(peer.best)
    /\ peer' = [peer EXCEPT
                  !.queue = LoopIteration(peer.queue, peer.best).queue,
                  !.best = LoopIteration(peer.queue, peer.best).best]
    /\ PeerFrame

\* the second object's loop ends, by break or on an empty queue, and
\* _finalize_validation returns
PeerReturn ==
    /\ peer.pc = "validate"
    /\ peer.queue = <<>> \/ BestFoundIn(peer.best)
    /\ peer' = [peer EXCEPT
                  !.queue = IF peer.queue = <<>> THEN <<>> ELSE get_rest(peer.queue),
                  !.tokens = _finalize_validation_on(peer.tokens, peer.errors,
                                                     peer.best)[1],
                  !.result = _finalize_validation_on(peer.tokens, peer.errors,
                                                     peer.best)[2],
                  !.pc = "done"]
    /\ PeerFrame

NextLex == LexStep \/ LexReturn

Next ==
    \/ LexStep
    \/ LexReturn
    \/ ValidateStart
    \/ RecordCandidate
    \/ ProcessTransitions
    \/ HandleValidTransition
    \/ GenerateRepairBranches
    \/ BreakOnBest
    \/ QueueEmpty

Spec == Init /\ [][Next]_vars

SpecLex == InitLex /\ [][NextLex]_vars

\* the texts of two objects whose validate_tokens() calls run together
ParPieces ==
    {ListDelete(DeclPieces, 2), ShortDeclPieces, <<<<"@">>, <<";">>>>,
     <<KwConst>>, SubSeq(DeclPieces, 1, 3), DeclMinusPieces}

ParTexts == {Join(p) : p \in ParPieces}

\* two objects, each after its lex()
InitPar ==
    /\ input_text \in ParTexts
    /\ pos = Len(input_text)
    /\ tokens = lex(input_text, 0, <<>>, <<>>)[1]
    /\ errors = lex(input_text, 0, <<>>, <<>>)[2]
    /\ lexer_errors = errors
    /\ scanned = tokens
    /\ queue = <<>>
    /\ best = <<>>
    /\ pc = "lexed"
    /\ run = 0
    /\ result = [tokens |-> <<>>, errors |-> <<>>]
    /\ first_result = [tokens |-> <<>>, errors |-> <<>>]
    /\ class_attrs = ClassBody
    /\ peer \in {PeerOn(text) : text \in ParTexts}

\* the steps of the two calls, in any order
NextPar ==
    \/ ValidateStart
    \/ RecordCandidate
    \/ ProcessTransitions
    \/ HandleValidTransition
    \/ GenerateRepairBranches
    \/ BreakOnBest
    \/ QueueEmpty
    \/ PeerValidateStart
    \/ PeerIteration
    \/ PeerReturn

SpecPar == InitPar /\ [][NextPar]_vars

(***************************************************************************)
(* Reference definitions for the properties.                               *)
(***************************************************************************)
Kinds(toks) == [k \in 1..Len(toks) |-> toks[k].type]

\* END stands for START when the next declaration begins
NormState(s) == IF s = "END" THEN "START" ELSE s

LiveStates == GrammarStates \ {"END"}

\* the state after kind k in state s (k allowed in s)
GrammarStep(s, k) == NormState(TRANSITIONS[s][k])

\* the state the grammar is in after the kinds, "REJECT" when a kind is not
\* allowed where it stands
RECURSIVE GrammarRun(_, _)
GrammarRun(kinds, s) ==
    IF kinds = <<>> THEN s
    ELSE IF Head(kinds) \in DOMAIN TRANSITIONS[s]
         THEN GrammarRun(Tail(kinds), GrammarStep(s, Head(kinds)))
         ELSE "REJECT"

\* the kinds are zero or more complete declarations
Accepts(kinds) == GrammarRun(kinds, "START") = "START"

\* the least number of tokens to insert to get from a state of S to state t
RECURSIVE InsertDistance(_, _, _)
InsertDistance(S, t, n) ==
    IF t \in S THEN n
    ELSE InsertDistance(S \cup UNION {{GrammarStep(s, k) : k \in DOMAIN TRANSITIONS[s]} :
                                         s \in S},
                        t, n + 1)

SetMin(S) == CHOOSE m \in S : \A n \in S : m <= n

LiveStateSeq == <<"START", "CONSTIDENTIFIER", "COLON", "DATATYPE",
                  "ASSIGNMENT", "VALUE", "WHOLENUMBER", "SEMICOLON">>

StateIndex(s) == CHOOSE k \in 1..Len(LiveStateSeq) : LiveStateSeq[k] = s

\* row[StateIndex(s)]: the least number of edits that make the kinds from
\* position i on acceptable when read from state s; EditRow makes the row of
\* position i from the row of position i+1 (insertions to reach a state t,
\* then the token is deleted, consumed or replaced)
EditCell(kind, row, s) ==
    LET After(t) ==
            {1 + row[StateIndex(t)]}
                \cup {row[StateIndex(GrammarStep(t, k))] :
                        k \in {kind} \cap DOMAIN TRANSITIONS[t]}
                \cup {1 + row[StateIndex(GrammarStep(t, k))] :
                        k \in DOMAIN TRANSITIONS[t]}
    IN  SetMin(UNION {{InsertDistance({s}, t, 0) + c : c \in After(t)} :
                        t \in LiveStates})

EditRow(kind, row) ==
    <<EditCell(kind, row, LiveStateSeq[1]), EditCell(kind, row, LiveStateSeq[2]),
      EditCell(kind, row, LiveStateSeq[3]), EditCell(kind, row, LiveStateSeq[4]),
      EditCell(kind, row, LiveStateSeq[5]), EditCell(kind, row, LiveStateSeq[6]),
      EditCell(kind, row, LiveStateSeq[7]), EditCell(kind, row, LiveStateSeq[8])>>

LastRow ==
    <<InsertDistance({LiveStateSeq[1]}, "START", 0),
      InsertDistance({LiveStateSeq[2]}, "START", 0),
      InsertDistance({LiveStateSeq[3]}, "START", 0),
      InsertDistance({LiveStateSeq[4]}, "START", 0),
      InsertDistance({LiveStateSeq[5]}, "START", 0),
      InsertDistance({LiveStateSeq[6]}, "START", 0),
      InsertDistance({LiveStateSeq[7]}, "START", 0),
      InsertDistance({LiveStateSeq[8]}, "START", 0)>>

RECURSIVE EditRows(_, _, _)
EditRows(kinds, i, row) ==
    IF i = 0 THEN row
    ELSE EditRows(kinds, i - 1, EditRow(kinds[i], row))

\* the least number of insert/delete/replace edits that turn the kinds into
\* zero or more complete declarations
MinEdits(kinds) == EditRows(kinds, Len(kinds), LastRow)[StateIndex("START")]

\* the kinds of the two forms of a complete declaration
DeclKinds == <<"CONST", "IDENTIFIER", "COLON", "I32", "ASSIGN", "NUMBER", "SEMICOLON">>
DeclMinusKinds ==
    <<"CONST", "IDENTIFIER", "COLON", "I32", "ASSIGN", "MINUS", "NUMBER", "SEMICOLON">>

\* the kinds that occur in the transition table
GrammarKinds == UNION {DOMAIN TRANSITIONS[s] : s \in GrammarStates}

\* a returned diagnostics list that ends with the fatal diagnostic
Failed(r) == r.errors # <<>> /\ r.errors[Len(r.errors)] = BudgetExceeded

\* a log entry undone on a token list
UndoChange(toks, change) ==
    CASE change[1] = "insert" -> ListDelete(toks, change[2])
      [] change[1] = "delete" -> ListInsert(toks, change[2], change[3])
      [] change[1] = "replace" -> ListSet(toks, change[2], change[3])

\* the log undone, last entry first
RECURSIVE UndoAll(_, _)
UndoAll(toks, changes) ==
    IF changes = <<>> THEN toks
    ELSE UndoAll(UndoChange(toks, changes[Len(changes)]),
                 SubSeq(changes, 1, Len(changes) - 1))

LogKinds(changes) == {changes[k][1] : k \in 1..Len(changes)}

(***************************************************************************)
(* Properties.                                                             *)
(***************************************************************************)
\* C1: when the scanned kinds are zero or more complete declarations,
\* validate_tokens returns no diagnostics and the scanned tokens, unchanged
\* and in order.
C1_ValidInputUnchanged ==
    (pc = "done" /\ run = 1 /\ Accepts(Kinds(scanned)))
        => (result.errors = <<>> /\ result.tokens = scanned)

C1_Witness ==
    /\ pc = "done" /\ run = 1
    /\ Len(scanned) = 15
    /\ Accepts(Kinds(scanned))
    /\ result.tokens = scanned

\* C2: whenever validate_tokens succeeds, the kinds of the tokens it returns
\* are zero or more complete declarations, none cut short.
C2_RepairedAccepted ==
    (pc = "done" /\ best # <<>>) => Accepts(Kinds(result.tokens))

C2_Witness ==
    /\ pc = "done" /\ run = 1 /\ best # <<>>
    /\ Len(best[1].changes) >= 3
    /\ result.tokens # <<>>
    /\ ~Accepts(Kinds(scanned))

\* C3: whenever validate_tokens succeeds, no shorter sequence of token
\* insertions, deletions and replacements makes the scanned kinds acceptable:
\* the number of edits returned is the least possible.
C3_EditsMinimal ==
    (pc = "done" /\ run = 1 /\ best # <<>>)
        => Len(result.errors) <= MinEdits(Kinds(scanned))

\* C4: when the queue empties without a candidate, validate_tokens returns the
\* scanned tokens and a diagnostics list holding the fatal diagnostic only,
\* whatever the scanner had recorded.
C4_BudgetExceededAlone ==
    (pc = "done" /\ run = 1 /\ best = <<>>)
        => (result.tokens = scanned /\ result.errors = <<BudgetExceeded>>)

\* C5 as stated: whenever validate_tokens succeeds, the returned edit log (one
\* diagnostic per entry) has at most MAX_EDIT_COUNT entries.
C5_LogWithinBudget ==
    (pc = "done" /\ best # <<>>)
        => (/\ Len(best[1].changes) <= MAX_EDIT_COUNT
            /\ Len(result.errors) <= MAX_EDIT_COUNT)

\* C5 amended: the edit_count of every recorded candidate, the edits it made
\* since it last consumed a semicolon of the input, is at most MAX_EDIT_COUNT
\* and at most the length of its log; one diagnostic is returned per log entry.
C5_EditCountWithinBudget ==
    /\ best # <<>> =>
          /\ best[1].edit_count <= MAX_EDIT_COUNT
          /\ best[1].edit_count <= Len(best[1].changes)
    /\ (pc = "done" /\ best # <<>>) => Len(result.errors) = Len(best[1].changes)

C5_Witness ==
    /\ pc = "done" /\ run = 1 /\ best # <<>>
    /\ Len(best[1].changes) > MAX_EDIT_COUNT
    /\ best[1].edit_count < Len(best[1].changes)

\* C6: when a first validate_tokens succeeded, a further validate_tokens on
\* the tokens it returned yields no diagnostics and the same tokens.
C6_Idempotent ==
    (pc = "done" /\ run >= 2 /\ ~Failed(first_result))
        => (result.errors = <<>> /\ result.tokens = first_result.tokens)

C6_Witness ==
    /\ pc = "done" /\ run = 2
    /\ ~Failed(first_result)
    /\ Len(first_result.errors) >= 2
    /\ first_result.tokens # <<>>
    /\ result.errors = <<>>

\* C7: whenever validate_tokens succeeds, undoing the accepted log on the
\* returned tokens, last entry first, gives back the scanned tokens.
C7_RoundTrip ==
    (pc = "done" /\ run = 1 /\ best # <<>>)
        => UndoAll(result.tokens, best[1].changes) = scanned

C7_Witness ==
    /\ pc = "done" /\ run = 1 /\ best # <<>>
    /\ LogKinds(best[1].changes) = {"insert", "delete", "replace"}
    /\ UndoAll(result.tokens, best[1].changes) = scanned

\* C8 as stated: for one declaration lacking exactly one required token,
\* validate_tokens returns exactly one diagnostic, the insertion of a token of
\* the missing kind, and the complete declaration with that token where it
\* was missing.
C8_OneOmittedToken ==
    \A d \in {DeclKinds, DeclMinusKinds} : \A i \in 0..(Len(d) - 1) :
        (/\ pc = "done" /\ run = 1
         /\ d[i + 1] # "MINUS"
         /\ Kinds(scanned) = ListDelete(d, i))
            => /\ best # <<>>
               /\ Len(best[1].changes) = 1
               /\ best[1].changes[1][1] = "insert"
               /\ best[1].changes[1][2] = i
               /\ Len(result.errors) = 1
               /\ result.errors[1].message
                      = <<"insert", DEFAULT_TOKEN_VALUES(d[i + 1])>>
               /\ Kinds(result.tokens) = d
               /\ result.tokens[i + 1].value = DEFAULT_TOKEN_VALUES(d[i + 1])
               /\ ListDelete(result.tokens, i) = scanned

\* C8 amended: for one declaration lacking exactly one required token,
\* validate_tokens returns exactly one diagnostic and a complete declaration:
\* the insertion of a token of the missing kind where it was missing, except
\* when ASSIGN is missing in front of a MINUS, where the MINUS is replaced by
\* an ASSIGN and the declaration comes out without its sign.
C8_OneOmittedTokenRepaired ==
    \A d \in {DeclKinds, DeclMinusKinds} : \A i \in 0..(Len(d) - 1) :
        (/\ pc = "done" /\ run = 1
         /\ d[i + 1] # "MINUS"
         /\ Kinds(scanned) = ListDelete(d, i))
            => /\ best # <<>>
               /\ Len(best[1].changes) = 1
               /\ best[1].changes[1][2] = i
               /\ Len(result.errors) = 1
               /\ result.tokens[i + 1].value = DEFAULT_TOKEN_VALUES(d[i + 1])
               /\ IF d = DeclMinusKinds /\ d[i + 1] = "ASSIGN"
                  THEN /\ best[1].changes[1][1] = "replace"
                       /\ best[1].changes[1][3] = scanned[i + 1]
                       /\ best[1].changes[1][4].type = "ASSIGN"
                       /\ result.errors[1].message
                              = <<"replace", <<"-">>, <<"=">>>>
                       /\ Kinds(result.tokens) = DeclKinds
                       /\ ListSet(result.tokens, i, scanned[i + 1]) = scanned
                  ELSE /\ best[1].changes[1][1] = "insert"
                       /\ result.errors[1].message
                              = <<"insert", DEFAULT_TOKEN_VALUES(d[i + 1])>>
                       /\ Kinds(result.tokens) = d
                       /\ ListDelete(result.tokens, i) = scanned

C8_Witness ==
    /\ pc = "done" /\ run = 1
    /\ Kinds(scanned) = ListDelete(DeclKinds, 2)
    /\ Kinds(result.tokens) = DeclKinds
    /\ Len(result.errors) = 1

\* the scanned tokens outnumber the budget and none has a kind of the grammar
OnlyGarbage ==
    /\ Len(scanned) > MAX_EDIT_COUNT
    /\ \A k \in 1..Len(scanned) : scanned[k].type \notin GrammarKinds

\* C9: for more than MAX_EDIT_COUNT tokens of kinds the grammar never
\* consumes, no candidate is ever recorded and validate_tokens returns the
\* scanned tokens with the fatal diagnostic.
C9_GarbageExceedsBudget ==
    (pc \in {"validate", "done"} /\ OnlyGarbage)
        => /\ best = <<>>
           /\ pc = "done" => (result.tokens = scanned /\ Failed(result))

C9_Witness ==
    /\ pc = "done" /\ run = 1
    /\ OnlyGarbage
    /\ Failed(result)
    /\ result.tokens = scanned

\* C10: a text that is one run of letters is scanned to the keyword token with
\* the keyword's spelling when it is a keyword candidate, and to an IDENTIFIER
\* with its own spelling otherwise.
C10_FuzzyPromotion ==
    (/\ pc = "lexed"
     /\ input_text # <<>>
     /\ \A k \in 1..Len(input_text) : isalpha(input_text[k]))
        => IF _is_keyword_candidate(input_text)
           THEN \E kw \in _correct_keyword(input_text) :
                    tokens = <<Token(KEYWORD_TO_TOKEN(kw), kw, 1, 1)>>
           ELSE tokens = <<Token("IDENTIFIER", input_text, 1, 1)>>

(***************************************************************************)
(* C11: scanning and then validating a well-formed declaration such as     *)
(* "const x : i32 = 5;" yields the kinds CONST, IDENTIFIER, COLON, I32,    *)
(* ASSIGN, NUMBER, SEMICOLON in this order, the identifier and the number  *)
(* keep their text, and neither lex() nor validate_tokens() reports a      *)
(* diagnostic.                                                             *)
(***************************************************************************)
C11_WellFormedDeclaration ==
    \A name \in DeclNames, number \in DeclNumbers, gap \in DeclGaps :
        (/\ input_text = WellFormedDecl(name, number, gap)
         /\ pc = "done" /\ run = 1)
        => /\ Kinds(scanned) = DeclKinds
           /\ Kinds(result.tokens) = DeclKinds
           /\ result.tokens[2].value = name
           /\ result.tokens[6].value = number
           /\ lexer_errors = <<>>
           /\ result.errors = <<>>

\* a declaration typed without whitespace around the punctuation is through
\* both operations
C11_Witness ==
    /\ input_text = WellFormedDecl(<<"a", "b">>, <<"1", "2">>, <<>>)
    /\ pc = "done" /\ run = 1
    /\ Len(result.tokens) = 7
    /\ result.tokens[2].value = <<"a", "b">>
    /\ result.errors = <<>>

(***************************************************************************)
(* C12: a declaration whose NUMBER follows one PLUS sign is accepted as    *)
(* one whose NUMBER follows MINUS: validate_tokens() on the kinds CONST    *)
(* IDENTIFIER COLON I32 ASSIGN PLUS NUMBER SEMICOLON returns no diagnostic *)
(* and the tokens unchanged.                                               *)
(***************************************************************************)
DeclPlusKinds ==
    <<"CONST", "IDENTIFIER", "COLON", "I32", "ASSIGN", "PLUS", "NUMBER", "SEMICOLON">>

C12_PlusAccepted ==
    (pc = "done" /\ run = 1 /\ Kinds(scanned) = DeclPlusKinds)
    => /\ result.errors = <<>>
       /\ result.tokens = scanned

(***************************************************************************)
(* C13: a branch in state END goes on as a branch in state START does: a   *)
(* CONST token at its cursor is consumed without an edit, whether END was  *)
(* reached over a SEMICOLON of the input or over a SEMICOLON the search    *)
(* inserted or substituted.                                                *)
(***************************************************************************)
\* the branch the iteration takes off the queue is in state with a CONST
\* token at its cursor
TakesConstIn(state) ==
    /\ pc = "validate" /\ queue # <<>> /\ ~BestFound
    /\ get_item(queue).current_state = state
    /\ ~AtEnd(get_item(queue))
    /\ get_item(queue).tokens[get_item(queue).index + 1].type = "CONST"

\* the iteration consumes the token at the cursor as START consumes a CONST
ConsumesConst ==
    LET branch == get_item(queue)
    IN  queue' = put(get_rest(queue),
                     Branch(branch.tokens, branch.index + 1,
                            TRANSITIONS["START"]["CONST"],
                            branch.edit_count, branch.changes))

C13_EndBehavesAsStart ==
    [][(TakesConstIn("START") \/ TakesConstIn("END")) => ConsumesConst]_vars

(***************************************************************************)
(* C14: the diagnostics validate_tokens() returns on success are one for   *)
(* one the entries of the accepted branch's log, in the order of the log:  *)
(* the i-th diagnostic is at the position of the deleted token for a       *)
(* delete entry, of the old token for a replace entry and of the inserted  *)
(* token for an insert entry.                                              *)
(***************************************************************************)
\* diagnostic d reports log entry change
ReportsChange(d, change) ==
    /\ d.message[1] = change[1]
    /\ d.line = change[3].line
    /\ d.column = change[3].column
    /\ d.message[2] = change[3].value
    /\ change[1] = "replace" => d.message[3] = change[4].value

C14_DiagnosticsFollowLog ==
    (pc = "done" /\ best # <<>>)
    => /\ Len(result.errors) = Len(best[1].changes)
       /\ \A i \in 1..Len(result.errors) :
              ReportsChange(result.errors[i], best[1].changes[i])

\* a success whose log holds entries of two kinds, reported in the order of
\* the log at two positions
C14_Witness ==
    /\ pc = "done" /\ best # <<>>
    /\ \E i, j \in 1..Len(best[1].changes) :
          /\ i < j
          /\ best[1].changes[i][1] # best[1].changes[j][1]
          /\ result.errors[i].message[1] = best[1].changes[i][1]
          /\ result.errors[j].message[1] = best[1].changes[j][1]
          /\ result.errors[i].column < result.errors[j].column

(***************************************************************************)
(* C15: lex() and validate_tokens() never abort: every step is defined     *)
(* (the cursor of a branch is within its tokens or just past them, every   *)
(* lookup in the transition table is for a state and a kind it holds,      *)
(* every token is a token) and each call ends by returning tokens and      *)
(* diagnostics.                                                            *)
(***************************************************************************)
IsToken(t) ==
    /\ DOMAIN t = {"type", "value", "line", "column"}
    /\ t.type \in TokenKinds
    /\ t.line \in Nat /\ t.column \in Nat

IsDiagnostic(d) ==
    /\ DOMAIN d = {"line", "column", "message"}
    /\ d.line \in Nat /\ d.column \in Nat

\* every access an iteration on the branch makes is defined
BranchDefined(branch) ==
    /\ branch.index \in 0..Len(branch.tokens)
    /\ branch.current_state \in DOMAIN TRANSITIONS
    /\ \A k \in 1..Len(allowed_keys(branch.current_state)) :
           allowed_keys(branch.current_state)[k]
               \in DOMAIN TRANSITIONS[branch.current_state]
    /\ \A k \in 1..Len(branch.tokens) : IsToken(branch.tokens[k])
    /\ \A k \in 1..Len(branch.changes) :
           /\ branch.changes[k][1] \in {"insert", "delete", "replace"}
           /\ \A n \in 3..Len(branch.changes[k]) : IsToken(branch.changes[k][n])

\* the branches the iteration on branch puts on the queue
Children(branch) ==
    IF AtEnd(branch)
    THEN IF IsAccepting(branch) THEN <<>> ELSE _process_transitions(branch)
    ELSE IF IsAllowed(branch)
         THEN <<_handle_valid_transition(branch)>>
         ELSE _generate_repair_branches(branch, branch.tokens[branch.index + 1],
                                        allowed_keys(branch.current_state))

\* the tokens a branch has not consumed, then the edits it may still make
RankLess(child, branch) ==
    LET left(b) == Len(b.tokens) - b.index
    IN  \/ left(child) < left(branch)
        \/ /\ left(child) = left(branch)
           /\ child.edit_count > branch.edit_count
           /\ child.edit_count <= MAX_EDIT_COUNT

\* the branch the next iteration takes and the branches it puts are defined,
\* and the branches it puts are of lesser rank than the branch it takes
StepsDefined ==
    /\ pos \in 0..Len(input_text)
    /\ (pc = "validate" /\ queue # <<>>) =>
          /\ BranchDefined(get_item(queue))
          /\ \A k \in 1..Len(Children(get_item(queue))) :
                 /\ BranchDefined(Children(get_item(queue))[k])
                 /\ RankLess(Children(get_item(queue))[k], get_item(queue))
    /\ best # <<>> => BranchDefined(best[1])
    /\ pc \in {"lexed", "validate", "done"} =>
           /\ \A k \in 1..Len(tokens) : IsToken(tokens[k])
           /\ \A k \in 1..Len(lexer_errors) : IsDiagnostic(lexer_errors[k])
    /\ pc = "done" =>
           /\ \A k \in 1..Len(result.tokens) : IsToken(result.tokens[k])
           /\ \A k \in 1..Len(result.errors) : IsDiagnostic(result.errors[k])

\* a step of lex() moves on in the text; an iteration of validate_tokens()
\* takes one branch off the queue and puts its children, or breaks; as the
\* children are of lesser rank, neither loop can run for ever
StepAdvances ==
    /\ (pc = "lex" /\ pc' = "lex") => pos' > pos
    /\ (pc = "validate" /\ pc' = "validate") =>
          /\ queue # <<>>
          /\ Len(queue') = Len(queue) - 1 + Len(Children(get_item(queue)))
    /\ (pc = "validate" /\ pc' # "validate") =>
          /\ pc' = "done"
          /\ queue = <<>> \/ BestFound

C15_NeverAborts == []StepsDefined /\ [][StepAdvances]_vars

\* a call that took a repair branch off a queue of several has returned
\* tokens and diagnostics
C15_Witness ==
    /\ pc = "done" /\ run = 1
    /\ Len(result.tokens) >= 7
    /\ Len(result.errors) >= 2
    /\ lexer_errors # <<>>

(***************************************************************************)
(* C16: for a character that is not whitespace and starts no keyword,      *)
(* punctuation, identifier or number (such as '@'), lex() records exactly  *)
(* one invalid-character diagnostic for that one character in its error    *)
(* list and moves on by exactly one character.                             *)
(***************************************************************************)
StartsNoToken(c) ==
    /\ ~isspace(c)
    /\ ~isalpha(c) /\ c # "_" /\ ~isdigit(c)
    /\ c \notin {":", "=", "+", "-", ";"}

\* the step of lex() scans a character that starts no token
ScansStray ==
    /\ pc = "lex"
    /\ SkipSpace(input_text, pos) < Len(input_text)
    /\ StartsNoToken(input_text[SkipSpace(input_text, pos) + 1])

C16_StrayCharacterDiagnosed ==
    [][ScansStray =>
         LET start_pos == SkipSpace(input_text, pos)
             lc == get_line_column(input_text, start_pos)
         IN  /\ Len(errors') = Len(errors) + 1
             /\ errors'[Len(errors')].line = lc[1]
             /\ errors'[Len(errors')].column = lc[2]
             /\ errors'[Len(errors')].message[2] = <<input_text[start_pos + 1]>>
             /\ pos' = start_pos + 1]_vars

\* as the code has it: the character becomes one INVALID token of its own,
\* without a diagnostic
C16_StrayCharacterToken ==
    [][ScansStray =>
         LET start_pos == SkipSpace(input_text, pos)
             lc == get_line_column(input_text, start_pos)
         IN  /\ tokens' = Append(tokens,
                     Token("INVALID", <<input_text[start_pos + 1]>>, lc[1], lc[2]))
             /\ errors' = errors
             /\ pos' = start_pos + 1]_vars

\* lex() has returned for a text with a stray character on its second line
C16_Witness ==
    /\ pc = "lexed"
    /\ \E k \in 1..Len(tokens) :
          tokens[k].type = "INVALID" /\ tokens[k].line = 2
    /\ lexer_errors = <<>>

(***************************************************************************)
(* C17: validate_tokens() keeps no state from one call to the next: when a *)
(* call has returned, the token list and the error list the scanner holds  *)
(* are the ones it held before the call, so a second call starts from the  *)
(* scanned tokens.                                                         *)
(***************************************************************************)
C17_ValidateKeepsNoState ==
    pc = "done" => tokens = scanned /\ errors = lexer_errors

(***************************************************************************)
(* C20: every branch the search creates has edit_count = len(changes);     *)
(* a transition into END sets both the edit_count and the log of the       *)
(* branch back to 0 and empty, which keeps the two equal.                  *)
(***************************************************************************)
\* the branch the next iteration takes off the queue (every branch is put
\* before it is taken), the branches that iteration creates, and the
\* recorded candidate
HeldBranches ==
    (IF pc = "validate" /\ queue # <<>>
     THEN <<get_item(queue)>> \o Children(get_item(queue)) ELSE <<>>) \o best

C20_EditCountIsLogLength ==
    \A n \in 1..Len(HeldBranches) :
        HeldBranches[n].edit_count = Len(HeldBranches[n].changes)

\* the number of tokens before the cursor up to the last SEMICOLON the branch
\* consumed from the input (0 when it consumed none).  A branch in END has
\* a SEMICOLON of the search's making right before its cursor.
LastRestart(branch) ==
    LET upto == IF branch.current_state = "END"
                THEN branch.index - 1 ELSE branch.index
        at == {k \in 1..upto : branch.tokens[k].type = "SEMICOLON"}
    IN  IF at = {} THEN 0 ELSE CHOOSE k \in at : \A n \in at : n <= k

\* the log entries made at or after the token that follows that SEMICOLON
EditsSinceRestart(branch) ==
    Cardinality({k \in 1..Len(branch.changes) :
                    branch.changes[k][2] >= LastRestart(branch)})

\* as the code has it: consuming a SEMICOLON of the input sets edit_count to
\* 0 and keeps the log, so edit_count counts the entries made since then
CountsSinceRestart(branch) ==
    /\ branch.edit_count = EditsSinceRestart(branch)
    /\ branch.edit_count <= Len(branch.changes)
    /\ LastRestart(branch) = 0 => branch.edit_count = Len(branch.changes)

C20_EditCountSinceRestart ==
    \A n \in 1..Len(HeldBranches) : CountsSinceRestart(HeldBranches[n])

\* a queued branch with edits before and after a SEMICOLON of the input
C20_Witness ==
    \E k \in 1..Len(queue) :
        /\ queue[k].edit_count > 0
        /\ queue[k].edit_count < Len(queue[k].changes)
        /\ LastRestart(queue[k]) > 0

(***************************************************************************)
(* C19: the transition table gives every state and kind at most one next   *)
(* state; the kind sequences that lead from START to END are exactly       *)
(* CONST IDENTIFIER COLON I32 ASSIGN NUMBER SEMICOLON and                  *)
(* CONST IDENTIFIER COLON I32 ASSIGN MINUS NUMBER SEMICOLON; the allowed   *)
(* kinds of a state are exactly the kinds with an edge out of it: NUMBER   *)
(* and MINUS in VALUE, one kind in every other state but END.              *)
(***************************************************************************)
\* the kind sequences of at most n tokens that lead from state to END
RECURSIVE PathsToEnd(_, _)
PathsToEnd(state, n) ==
    IF state = "END" THEN {<<>>}
    ELSE IF n = 0 THEN {}
    ELSE UNION {{<<kind>> \o path :
                    path \in PathsToEnd(TRANSITIONS[state][kind], n - 1)} :
                kind \in DOMAIN TRANSITIONS[state]}

AllowedSet(state) ==
    {allowed_keys(state)[k] : k \in 1..Len(allowed_keys(state))}

C19_TableIsTheGrammar ==
    /\ DOMAIN TRANSITIONS = GrammarStates
    /\ \A state \in GrammarStates :
          /\ \A kind \in DOMAIN TRANSITIONS[state] :
                 TRANSITIONS[state][kind] \in GrammarStates
          /\ AllowedSet(state) = DOMAIN TRANSITIONS[state]
          /\ Len(allowed_keys(state)) = Cardinality(AllowedSet(state))
          /\ state \notin {"VALUE", "END"} => Cardinality(AllowedSet(state)) = 1
    /\ AllowedSet("VALUE") = {"NUMBER", "MINUS"}
    /\ AllowedSet("END") = {}
    /\ PathsToEnd("START", Cardinality(GrammarStates) + 1)
          = {DeclKinds, DeclMinusKinds}

\* the search has followed the MINUS edge out of VALUE without an edit
C19_Witness ==
    /\ pc = "validate"
    /\ \E k \in 1..Len(queue) :
          /\ queue[k].current_state = "WHOLENUMBER"
          /\ queue[k].changes = <<>>
          /\ queue[k].tokens[queue[k].index].type = "MINUS"

(***************************************************************************)
(* C18: two validate_tokens() calls on objects with texts of their own,    *)
(* their steps interleaved in any order, each return what the call returns *)
(* when it runs alone: a call writes only its own queue, branches and      *)
(* object, and no step writes the transition table or the table of default *)
(* spellings, which the two share.                                         *)
(***************************************************************************)
\* the tokens the first object held when its current call began
TokensAtCall == IF run = 1 THEN scanned ELSE first_result.tokens

ReturnsAsAlone ==
    /\ pc = "done" => result = validate_tokens(TokensAtCall, lexer_errors)
    /\ peer.pc = "done" => peer.result = validate_tokens(peer.scanned, peer.errors)

C18_InterleavedAsAlone ==
    /\ []ReturnsAsAlone
    /\ [][class_attrs' = class_attrs]_vars

\* both calls have returned, one with repairs and one over its budget
C18_Witness ==
    /\ pc = "done" /\ run = 1 /\ peer.pc = "done"
    /\ scanned # peer.scanned
    /\ result.errors # <<>> /\ ~Failed(result)
    /\ Failed(peer.result)

(***************************************************************************)
(* C21: the budget is per declaration.  When the input is several          *)
(* declarations, each ended by a SEMICOLON token of its own and each       *)
(* repaired within MAX_EDIT_COUNT edits, validate_tokens() succeeds (no    *)
(* fatal diagnostic), also when the edits of all the declarations together *)
(* are more than MAX_EDIT_COUNT: consuming a SEMICOLON of the input sets   *)
(* edit_count back to 0.                                                   *)
(***************************************************************************)
\* the index of the first SEMICOLON token of toks (0 when there is none)
FirstSemicolon(toks) ==
    LET at == {k \in 1..Len(toks) : toks[k].type = "SEMICOLON"}
    IN  IF at = {} THEN 0 ELSE CHOOSE k \in at : \A n \in at : k <= n

\* toks cut after each of its SEMICOLON tokens; what follows the last one is
\* the last piece
RECURSIVE Declarations(_)
Declarations(toks) ==
    IF toks = <<>> THEN <<>>
    ELSE IF FirstSemicolon(toks) = 0 THEN <<toks>>
    ELSE <<SubSeq(toks, 1, FirstSemicolon(toks))>>
            \o Declarations(SubSeq(toks, FirstSemicolon(toks) + 1, Len(toks)))

\* the search repairs the declaration, given alone, within the budget and
\* up to its own SEMICOLON, which it keeps
RepairedWithinBudget(decl) ==
    LET alone == validate_tokens(decl, <<>>)
    IN  /\ ~Failed(alone)
        /\ alone.tokens # <<>>
        /\ alone.tokens[Len(alone.tokens)] = decl[Len(decl)]

SeveralDeclarations(toks) ==
    /\ Len(toks) >= 2
    /\ toks[Len(toks)].type = "SEMICOLON"
    /\ Len(Declarations(toks)) >= 2
    /\ \A k \in 1..Len(Declarations(toks)) :
           RepairedWithinBudget(Declarations(toks)[k])

Expands(branch) ==
    IF AtEnd(branch) THEN ~IsAccepting(branch) ELSE ~IsAllowed(branch)

C22_QueuedWithinBudget ==
    /\ \A n \in 1..Len(HeldBranches) :
          HeldBranches[n].edit_count \in 0..MAX_EDIT_COUNT
    /\ (pc = "validate" /\ queue # <<>> /\ Expands(get_item(queue))) =>
          LET branch == get_item(queue)
          IN  /\ \A k \in 1..Len(Children(branch)) :
                    /\ Children(branch)[k].edit_count = branch.edit_count + 1
                    /\ Len(Children(branch)[k].changes) = Len(branch.changes) + 1
              /\ branch.edit_count = MAX_EDIT_COUNT => Children(branch) = <<>>
              /\ branch.edit_count < MAX_EDIT_COUNT => Children(branch) # <<>>

\* a branch that has used the whole budget is taken at a token that is not
\* allowed: its expansions are dropped
C22_Witness ==
    /\ pc = "validate" /\ queue # <<>>
    /\ get_item(queue).edit_count = MAX_EDIT_COUNT
    /\ ~AtEnd(get_item(queue)) /\ ~IsAllowed(get_item(queue))
    /\ allowed_keys(get_item(queue).current_state) # <<>>
    /\ Children(get_item(queue)) = <<>>


(***************************************************************************)
(* C23: the accepted branch against every accepting branch of the search.  *)
(***************************************************************************)
\* the edit_count of every accepting branch below branch in the tree the
\* loop of validate_tokens() grows when nothing stops it
RECURSIVE AcceptingCounts(_)
AcceptingCounts(branch) ==
    IF AtEnd(branch) /\ IsAccepting(branch) THEN {branch.edit_count}
    ELSE UNION {AcceptingCounts(Children(branch)[k]) :
                    k \in 1..Len(Children(branch))}

\* C23: the branch validate_tokens() accepts has the least edit_count of all
\* the accepting branches the search can generate within the budget.
C23_AcceptedIsOptimal ==
    (pc = "done" /\ run = 1 /\ best # <<>>)
        => \A count \in AcceptingCounts(Branch(scanned, 0, "START", 0, <<>>)) :
              best[1].edit_count <= count

(***************************************************************************)
(* C24: branches of equal edit_count in the queue.                         *)
(***************************************************************************)
TiedKinds ==
    <<"CONST", "IDENTIFIER", "COLON", "I32", "ASSIGN", "IDENTIFIER", "NUMBER",
      "SEMICOLON">>

\* the branch has dropped the stray name and made no other edit
DeletesStray(branch) ==
    /\ Len(branch.changes) = 1
    /\ branch.changes[1][1] = "delete" /\ branch.changes[1][2] = 5

\* the branch has turned the stray name into a minus sign, no other edit
ReplacesStrayWithMinus(branch) ==
    /\ Len(branch.changes) = 1
    /\ branch.changes[1][1] = "replace" /\ branch.changes[1][2] = 5
    /\ branch.changes[1][4].type = "MINUS"

\* the queue entries that equal the n-th one
Copies(n) == {i \in 1..Len(queue) : queue[i] = queue[n]}

\* some step of the search takes the n-th entry off the queue
MayPop(n) == ENABLED (Next /\ \A i \in 1..Len(queue') : queue'[i] # queue[n])

\* C24 (as claimed): nothing fixes which of the queued branches of least
\* edit_count is popped next, every one of them may be the branch popped, so
\* the result depends on the pop order and not on the input alone.
C24_AnyLeastCostBranchMayBePopped ==
    (pc = "validate" /\ queue # <<>> /\ ~BestFound)
        => \A n \in 1..Len(queue) :
              (queue[n].edit_count = get_item(queue).edit_count
                   /\ Copies(n) = {n})
                  => MayPop(n)

\* C24 (amended): the heap settles the ties.  On the declaration with a stray
\* name between ASSIGN and NUMBER, where dropping the name and turning it
\* into MINUS cost one edit each, validate_tokens() returns the declaration
\* without the name and the one Delete diagnostic, never the MINUS repair.
C24_TieSettledByHeap ==
    (pc = "done" /\ run = 1 /\ Kinds(scanned) = TiedKinds)
        => /\ result.tokens = ListDelete(scanned, 5)
           /\ result.errors = <<ErrorOfChange(<<"delete", 5, scanned[6]>>)>>
           /\ DeletesStray(best[1])

\* both repairs wait in the queue with the same edit_count
C24_Witness ==
    /\ pc = "validate" /\ run = 1 /\ Kinds(scanned) = TiedKinds
    /\ \E i, j \in 1..Len(queue) :
          /\ DeletesStray(queue[i])
          /\ ReplacesStrayWithMinus(queue[j])
          /\ queue[i].edit_count = queue[j].edit_count

(***************************************************************************)
(* C25: what a Delete expansion changes and what it leaves alone.          *)
(***************************************************************************)
\* the log of child is the log of branch and one entry more
LogGrowsByOne(child, branch) ==
    /\ Len(child.changes) = Len(branch.changes) + 1
    /\ SubSeq(child.changes, 1, Len(branch.changes)) = branch.changes

\* child is made from the tokens branch had before any expansion of it
MadeFromParent(child, branch) ==
    LET entry == child.changes[Len(child.changes)]
    IN  /\ LogGrowsByOne(child, branch)
        /\ entry[1] = "replace" =>
               ListSet(child.tokens, branch.index, entry[3]) = branch.tokens
        /\ entry[1] = "insert" =>
               ListDelete(child.tokens, branch.index) = branch.tokens

\* C25: the Delete branch of an expansion has the tokens of its parent
\* without the token at the cursor, the parent's index and state, and the
\* parent's log with one Delete entry (the index, the removed token) added;
\* the parent's tokens and log are as before for the branches built after it.
C25_DeleteFrame ==
    (pc = "validate" /\ queue # <<>> /\ ~AtEnd(get_item(queue))
        /\ ~IsAllowed(get_item(queue))
        /\ get_item(queue).edit_count < MAX_EDIT_COUNT)
        => LET branch == get_item(queue)
               children == Children(branch)
               child == children[1]
               i == branch.index
           IN  /\ Len(child.tokens) = Len(branch.tokens) - 1
               /\ \A k \in 1..i : child.tokens[k] = branch.tokens[k]
               /\ \A k \in (i + 1)..Len(child.tokens) :
                     child.tokens[k] = branch.tokens[k + 1]
               /\ child.index = i
               /\ child.current_state = branch.current_state
               /\ child.changes =
                     Append(branch.changes, <<"delete", i, branch.tokens[i + 1]>>)
               /\ \A n \in 2..Len(children) : MadeFromParent(children[n], branch)

\* a token in the middle of the list is deleted by a branch with a log, and
\* replacements and insertions are built from the same branch
C25_Witness ==
    /\ pc = "validate" /\ queue # <<>>
    /\ LET branch == get_item(queue)
       IN  /\ ~AtEnd(branch) /\ ~IsAllowed(branch)
           /\ branch.edit_count < MAX_EDIT_COUNT
           /\ branch.changes # <<>>
           /\ branch.index > 0 /\ branch.index + 1 < Len(branch.tokens)
           /\ Len(Children(branch)) >= 3

(***************************************************************************)
(* C26: the Insert branches of an expansion.                               *)
(***************************************************************************)
\* child is branch with a synthetic token of the kind put before the token
\* at the cursor
InsertsBefore(child, branch, kind) ==
    LET i == branch.index
        offending == branch.tokens[i + 1]
    IN  /\ Len(child.tokens) = Len(branch.tokens) + 1
        /\ child.tokens[i + 1] =
              Token(kind, DEFAULT_TOKEN_VALUES_dict[kind], offending.line,
                    offending.column)
        /\ child.tokens[i + 2] = offending
        /\ ListDelete(child.tokens, i) = branch.tokens
        /\ child.index = i + 1
        /\ child.current_state = TRANSITIONS_dict[branch.current_state][kind]

\* C26: an expansion within the budget puts, after the Delete and the
\* Replace branches, one Insert branch for each kind allowed in the state:
\* the synthetic token of that kind, spelled by default and positioned as the
\* offending token, stands at the cursor, the offending token follows it and
\* is the token at the new cursor, and the state is the one the kind leads to.
C26_InsertBeforeOffending ==
    (pc = "validate" /\ queue # <<>> /\ ~AtEnd(get_item(queue))
        /\ ~IsAllowed(get_item(queue))
        /\ get_item(queue).edit_count < MAX_EDIT_COUNT)
        => LET branch == get_item(queue)
               children == Children(branch)
               allowed == allowed_keys(branch.current_state)
           IN  /\ Len(children) = 1 + 2 * Len(allowed)
               /\ \A k \in 1..Len(allowed) :
                     LET child == children[1 + Len(allowed) + k]
                     IN  /\ InsertsBefore(child, branch, allowed[k])
                         /\ child.tokens[child.index + 1]
                               = branch.tokens[branch.index + 1]

\* an expansion in the middle of the list, in a state with two allowed kinds
C26_Witness ==
    /\ pc = "validate" /\ queue # <<>>
    /\ LET branch == get_item(queue)
       IN  /\ ~AtEnd(branch) /\ ~IsAllowed(branch)
           /\ branch.edit_count < MAX_EDIT_COUNT
           /\ branch.index > 0
           /\ Len(allowed_keys(branch.current_state)) = 2
           /\ Len(Children(branch)) = 5

(***************************************************************************)
(* C27: an input that ends in the middle of a declaration.                 *)
(***************************************************************************)
IsPrefix(kinds, full) ==
    Len(kinds) < Len(full) /\ kinds = SubSeq(full, 1, Len(kinds))

\* the kinds are a proper, non-empty beginning of a declaration
IsTruncated(kinds) ==
    kinds # <<>> /\ (IsPrefix(kinds, DeclKinds) \/ IsPrefix(kinds, DeclMinusKinds))

\* the kinds that complete a truncated declaration, without a sign of its own
MissingKinds(kinds) ==
    IF IsPrefix(kinds, DeclKinds)
    THEN SubSeq(DeclKinds, Len(kinds) + 1, Len(DeclKinds))
    ELSE SubSeq(DeclMinusKinds, Len(kinds) + 1, Len(DeclMinusKinds))

\* C27: a truncated declaration whose missing tokens the budget can pay for
\* is returned with its own tokens as they were, followed by the missing
\* kinds in the order of the grammar (NUMBER and no MINUS after ASSIGN), and
\* with one Insert diagnostic for each appended token and no other.
C27_TruncatedCompleted ==
    (pc = "done" /\ run = 1 /\ IsTruncated(Kinds(scanned))
        /\ Len(MissingKinds(Kinds(scanned))) <= MAX_EDIT_COUNT)
        => LET n == Len(scanned)
               missing == MissingKinds(Kinds(scanned))
               appended == SubSeq(result.tokens, n + 1, Len(result.tokens))
           IN  /\ ~Failed(result)
               /\ Len(result.tokens) = n + Len(missing)
               /\ SubSeq(result.tokens, 1, n) = scanned
               /\ Kinds(appended) = missing
               /\ result.errors =
                     [k \in 1..Len(missing) |->
                         ErrorOfChange(<<"insert", n + k - 1, appended[k]>>)]

\* the input stops after ASSIGN: a NUMBER and a SEMICOLON are appended
C27_Witness ==
    /\ pc = "done" /\ run = 1
    /\ Kinds(scanned) = SubSeq(DeclKinds, 1, 5)
    /\ Kinds(result.tokens) = DeclKinds
    /\ Len(result.errors) = 2

(***************************************************************************)
(* C28: which strings are keyword candidates.                              *)
(***************************************************************************)
\* the length of value is within the tolerance of the keyword's, both ways
LengthWithinTolerance(value, keyword) ==
    /\ Len(value) >= Len(keyword) - KEYWORD_TOLERANCE
    /\ Len(value) <= Len(keyword) + KEYWORD_TOLERANCE

\* C28: a string is a keyword candidate exactly when, for some keyword, its
\* length is within 2 of the keyword's length in either direction, it begins
\* with the keyword's first character and the greedy pass matches at least
\* 60% of the keyword; a string more than 2 characters longer than every
\* keyword is no candidate.
C28_KeywordCandidate ==
    pc = "lexed"
        => /\ _is_keyword_candidate(input_text)
                 <=> \E keyword \in KEYWORDS :
                        /\ LengthWithinTolerance(input_text, keyword)
                        /\ _fuzzy_match(lower(input_text), keyword)
           /\ (\A keyword \in KEYWORDS :
                   Len(input_text) > Len(keyword) + KEYWORD_TOLERANCE)
                 => ~_is_keyword_candidate(input_text)

(***************************************************************************)
(* C29, C30: the runs lex() cleans.                                        *)
(***************************************************************************)
\* the offset at which the next step of lex() tries the patterns
ScanStart == SkipSpace(input_text, pos)

\* the step scans a run that the pattern of the kind matches
ScansRun(kind) ==
    /\ pc = "lex" /\ pos' # pos
    /\ ScanStart < Len(input_text)
    /\ MatchAt(input_text, ScanStart)[1] = kind

\* the text the step has matched
ScannedRun == SubSeq(input_text, ScanStart + 1, pos')

\* the step appends one token with this kind and text, and one diagnostic at
\* the position of the token if corrected, none otherwise
EmitsCleaned(kind, text, corrected) ==
    LET token == tokens'[Len(tokens')]
    IN  /\ Len(tokens') = Len(tokens) + 1
        /\ SubSeq(tokens', 1, Len(tokens)) = tokens
        /\ token.type = kind /\ token.value = text
        /\ SubSeq(errors', 1, Len(errors)) = errors
        /\ Len(errors') = Len(errors) + (IF corrected THEN 1 ELSE 0)
        /\ corrected =>
              /\ errors'[Len(errors')].line = token.line
              /\ errors'[Len(errors')].column = token.column

\* C29: the token of an identifier run has the text of the run without the
\* characters that are neither letters, digits nor underscore ("_" if none
\* is left), the kind of the keyword that text spells or else IDENTIFIER, and
\* one correction diagnostic if a character was removed, none otherwise.
IdentifierCleaned ==
    ScansRun("IDENTIFIER") =>
        LET kept == SelectSeq(ScannedRun, LAMBDA c : isalnum(c) \/ c = "_")
            text == IF kept = <<>> THEN <<"_">> ELSE kept
        IN  EmitsCleaned(IF text \in KEYWORDS THEN KEYWORD_TO_TOKEN(text)
                                               ELSE "IDENTIFIER",
                         text, kept # ScannedRun)

C29_IdentifierRepair == [][IdentifierCleaned]_vars

\* "con@st" has become the token CONST 'const' with one diagnostic
C29_Witness ==
    /\ input_text = <<"c", "o", "n", "@", "s", "t">>
    /\ tokens = <<Token("CONST", KwConst, 1, 1)>>
    /\ Len(errors) = 1

\* C30: the token of a number run is a NUMBER with the digits of the run
\* ("0" if it has none), and one correction diagnostic is recorded if a
\* character was removed, none otherwise.
NumberCleaned ==
    ScansRun("NUMBER") =>
        LET kept == SelectSeq(ScannedRun, isdigit)
        IN  EmitsCleaned("NUMBER", IF kept = <<>> THEN <<"0">> ELSE kept,
                         kept # ScannedRun)

C30_NumberRepair == [][NumberCleaned]_vars

\* "5x5" has become the token NUMBER '55' with one diagnostic
C30_Witness ==
    /\ input_text = <<"5", "x", "5">>
    /\ tokens = <<Token("NUMBER", <<"5", "5">>, 1, 1)>>
    /\ Len(errors) = 1

(***************************************************************************)
(* C31: the line and the column of a token.                                *)
(***************************************************************************)
\* the 1-based indices of the newline characters among the first p
\* characters of the text
NewlinesBefore(p) == {q \in 1..p : input_text[q] = "\n"}

\* the 1-based line of the character at offset p
LineOf(p) == 1 + Cardinality(NewlinesBefore(p))

\* the 1-based column of the character at offset p: its distance from the
\* newline before it, or from the start of the text
ColumnOf(p) ==
    IF NewlinesBefore(p) = {} THEN p + 1
    ELSE p + 1 - (CHOOSE q \in NewlinesBefore(p) : \A r \in NewlinesBefore(p) : r <= q)

\* C31: a step of lex() that emits a token emits one token, whose first
\* character is the first character after the whitespace at the cursor and
\* whose line and column are those of that character, counted from 1; a step
\* over whitespace alone emits nothing.
TokenPositioned ==
    (pc = "lex" /\ tokens' # tokens)
        => /\ Len(tokens') = Len(tokens) + 1
           /\ SubSeq(tokens', 1, Len(tokens)) = tokens
           /\ ScanStart < Len(input_text)
           /\ ~isspace(input_text[ScanStart + 1])
           /\ \A q \in (pos + 1)..ScanStart : isspace(input_text[q])
           /\ tokens'[Len(tokens')].line = LineOf(ScanStart)
           /\ tokens'[Len(tokens')].column = ColumnOf(ScanStart)
           /\ pos' > ScanStart

C31_LineAndColumn == [][TokenPositioned]_vars

\* a token on the second line, behind a blank
C31_Witness ==
    /\ pc = "lexed"
    /\ Len(tokens) = 2
    /\ tokens[1].line = 1 /\ tokens[1].column = 1
    /\ tokens[2].line = 2 /\ tokens[2].column = 2

(***************************************************************************)
(* C32: punctuation and operator characters.                               *)
(***************************************************************************)
PunctuationKind ==
    (":" :> "COLON") @@ ("=" :> "ASSIGN") @@ ("+" :> "PLUS")
        @@ ("-" :> "MINUS") @@ (";" :> "SEMICOLON")

\* the places of the character in the text
Occurrences(ch) == {q \in 1..Len(input_text) : input_text[q] = ch}

\* the tokens of the kind of the character, spelled with it
TokensFor(ch) ==
    {k \in 1..Len(tokens) :
        tokens[k].type = PunctuationKind[ch] /\ tokens[k].value = <<ch>>}

\* C32: once the text is scanned, every occurrence of ':', '=', '+', '-' and
\* ';' has a token of its kind to itself, standing at its place, and no
\* IDENTIFIER or NUMBER run has taken it up.
C32_PunctuationOwnToken ==
    pc = "lexed"
        => \A ch \in DOMAIN PunctuationKind :
              /\ Cardinality(TokensFor(ch)) = Cardinality(Occurrences(ch))
              /\ \A q \in Occurrences(ch) :
                    \E k \in TokensFor(ch) :
                        /\ tokens[k].line = LineOf(q - 1)
                        /\ tokens[k].column = ColumnOf(q - 1)

(***************************************************************************)
(* C33: the loop of validate_tokens() ends.                                *)
(***************************************************************************)
\* a number that bounds the iterations a branch can still lead to in a row:
\* the tokens it has not consumed weigh more than all the edits of a budget
Weight(branch) ==
    (Len(branch.tokens) - branch.index) * (MAX_EDIT_COUNT + 1)
        + (MAX_EDIT_COUNT - branch.edit_count)

\* the weight of the branch the call begins with
RootWeight == Weight(Branch(TokensAtCall, 0, "START", 0, <<>>))

\* the branch taken next weighs no more than the root and every branch it
\* puts weighs less than it, and no weight is negative
WeightDecreases ==
    (pc = "validate" /\ queue # <<>>)
        => LET branch == get_item(queue)
               children == Children(branch)
           IN  /\ Weight(branch) \in 0..RootWeight
               /\ Len(children) <= 1 + 2 * Cardinality(TokenKinds)
               /\ \A k \in 1..Len(children) :
                     Weight(children[k]) \in 0..(Weight(branch) - 1)

\* an iteration takes one branch off the queue and puts its children and
\* nothing else, or the loop is left: with a candidate, or with the queue
\* empty and the budget reported as exceeded
IterationOrReturn ==
    pc = "validate"
        => \/ /\ pc' = "validate" /\ queue # <<>> /\ ~BestFound
              /\ queue' = put_all(get_rest(queue), Children(get_item(queue)))
           \/ /\ pc' = "done" /\ BestFound /\ ~Failed(result')
           \/ /\ pc' = "done" /\ queue = <<>> /\ best = <<>> /\ Failed(result')

\* C33: validate_tokens() terminates.  A SEMICOLON that resets edit_count is
\* a token consumed, so every branch put weighs less than the branch it comes
\* from, by a natural number, and a branch has boundedly many children: the
\* branches ever queued are finitely many.  Each iteration removes one and
\* adds only its children, and the loop is left at the first candidate or
\* when the queue is empty.
C33_SearchTerminates == []WeightDecreases /\ [][IterationOrReturn]_vars

\* a branch that has consumed a SEMICOLON after an edit, and counts from 0
\* again, is expanded
C33_Witness ==
    /\ pc = "validate" /\ queue # <<>>
    /\ LET branch == get_item(queue)
       IN  /\ branch.changes # <<>> /\ branch.edit_count = 0
           /\ ~AtEnd(branch) /\ ~IsAllowed(branch)
           /\ Len(Children(branch)) > 1

(***************************************************************************)
(* C34: the tokens a branch has not consumed.                              *)
(***************************************************************************)
\* the tokens at and after the cursor of the branch
Rest(branch) == SubSeq(branch.tokens, branch.index + 1, Len(branch.tokens))

\* the last n tokens of the sequence the call began with
OriginalSuffix(n) ==
    SubSeq(TokensAtCall, Len(TokensAtCall) - n + 1, Len(TokensAtCall))

RestIsOriginal(branch) ==
    /\ Len(Rest(branch)) <= Len(TokensAtCall)
    /\ Rest(branch) = OriginalSuffix(Len(Rest(branch)))

\* C34: in the branch an iteration takes, in every branch it puts and in the
\* candidate, the tokens at and after the cursor are the last tokens of the
\* sequence validate_tokens() was called on, each with its kind, text, line
\* and column: no edit reaches behind the cursor, no synthetic token stands
\* there.
C34_RestIsOriginalSuffix ==
    pc = "validate"
        => \A n \in 1..Len(HeldBranches) : RestIsOriginal(HeldBranches[n])

\* a branch with an insertion and a replacement in its log and two tokens
\* still to consume
C34_Witness ==
    /\ pc = "validate" /\ queue # <<>>
    /\ LET branch == get_item(queue)
       IN  /\ Len(Rest(branch)) >= 2
           /\ \E i, j \in 1..Len(branch.changes) :
                 branch.changes[i][1] = "insert" /\ branch.changes[j][1] = "replace"

(***************************************************************************)
(* C35: the log of a branch is never cut.                                  *)
(***************************************************************************)
\* the log of every branch the iteration puts begins with the log of the
\* branch it takes: the same log after a valid transition, one entry more
\* after an edit
LogKept ==
    (pc = "validate" /\ queue # <<>>)
        => LET branch == get_item(queue)
               children == Children(branch)
           IN  /\ branch.edit_count <= Len(branch.changes)
               /\ \A k \in 1..Len(children) :
                     /\ children[k].edit_count <= Len(children[k].changes)
                     /\ IF Expands(branch)
                        THEN LogGrowsByOne(children[k], branch)
                        ELSE children[k].changes = branch.changes

\* the diagnostics returned are those of the whole log of the candidate
WholeLogReported ==
    (pc = "done" /\ best # <<>>)
        => /\ best[1].edit_count <= Len(best[1].changes)
           /\ Len(result.errors) = Len(best[1].changes)
           /\ \A k \in 1..Len(best[1].changes) :
                 result.errors[k] = ErrorOfChange(best[1].changes[k])

\* C35: a child's log has its parent's log as a prefix, so edit_count never
\* exceeds the length of the log, and the diagnostics of a call are built
\* from every entry of the accepted branch's log, the edits made before a
\* SEMICOLON reset edit_count included.
C35_LogNeverTruncated == LogKept /\ WholeLogReported

\* two declarations repaired: the accepted branch counts 0 edits and the
\* call reports the edits of both
C35_Witness ==
    /\ pc = "done" /\ run = 1 /\ best # <<>>
    /\ best[1].edit_count = 0
    /\ Len(Declarations(scanned)) = 2
    /\ Len(result.errors) = 6
    /\ result.errors[1].column < result.errors[6].column

(***************************************************************************)
(* C36: a token of an allowed kind is consumed, never edited.              *)
(***************************************************************************)
\* the iteration takes a branch whose token at the cursor is of a kind the
\* table allows in the state of the branch
TakesAllowedToken ==
    /\ pc = "validate" /\ queue # <<>> /\ ~BestFound
    /\ ~AtEnd(get_item(queue))
    /\ get_item(queue).tokens[get_item(queue).index + 1].type
           \in DOMAIN TRANSITIONS_dict[get_item(queue).current_state]

\* the one branch put for a branch with an allowed token: the same tokens and
\* log, the cursor one further, the state the table gives (START for END,
\* and then edit_count 0)
Successor(branch) ==
    LET next_state ==
            TRANSITIONS_dict[branch.current_state][branch.tokens[branch.index + 1].type]
    IN  [tokens |-> branch.tokens,
         index |-> branch.index + 1,
         current_state |-> IF next_state = "END" THEN "START" ELSE next_state,
         edit_count |-> IF next_state = "END" THEN 0 ELSE branch.edit_count,
         changes |-> branch.changes]

\* C36: an iteration that takes a branch with an allowed token at the cursor
\* puts exactly one branch, the successor, and so no branch with a deletion,
\* a replacement or an insertion: the queue loses the branch taken, gains
\* the successor and is otherwise as it was.
ConsumesAllowedToken ==
    TakesAllowedToken
        => /\ queue' = put(get_rest(queue), Successor(get_item(queue)))
           /\ Len(queue') = Len(queue)
           /\ Len(Successor(get_item(queue)).changes)
                 = Len(get_item(queue).changes)
           /\ pc' = "validate"

C36_AllowedTokenNeverEdited == [][ConsumesAllowedToken]_vars

\* a branch that has made an edit has an allowed token at its cursor, and
\* other branches wait in the queue
C36_Witness ==
    /\ TakesAllowedToken
    /\ get_item(queue).changes # <<>>
    /\ get_item(queue).index > 0
    /\ Len(queue) > 2

(***************************************************************************)
(* C37: validate_tokens() on no tokens.                                    *)
(***************************************************************************)
\* the branch a call on no tokens begins with
EmptyRoot == Branch(<<>>, 0, "START", 0, <<>>)

\* C37: a call on an empty token sequence takes the root branch as its
\* candidate in its first iteration and puts nothing, and returns no token
\* and no diagnostic, the one for an exceeded budget included.
C37_EmptyInputSucceeds ==
    TokensAtCall = <<>>
        => /\ pc = "validate"
                 => \/ queue = <<EmptyRoot>> /\ best = <<>>
                    \/ queue = <<>> /\ best = <<EmptyRoot>>
           /\ (pc = "done" /\ run >= 1)
                 => /\ best = <<EmptyRoot>>
                    /\ result = [tokens |-> <<>>, errors |-> <<>>]
                    /\ ~Failed(result)
                    /\ tokens = <<>>

\* the call on the tokens of the empty text has returned
C37_Witness ==
    /\ pc = "done" /\ run = 1
    /\ input_text = <<>> /\ scanned = <<>>
    /\ result = [tokens |-> <<>>, errors |-> <<>>]

(***************************************************************************)
(* C38: the cursor of a branch, and the position of an appended token.     *)
(***************************************************************************)
CursorInBounds(branch) == branch.index \in 0..Len(branch.tokens)

\* the iteration appends at the end of the tokens: the list is not empty,
\* and each branch put has one token more, on the line of the last token and
\* in the column behind its text
AppendsBehindLast ==
    (pc = "validate" /\ queue # <<>> /\ AtEnd(get_item(queue))
        /\ ~IsAccepting(get_item(queue)))
        => LET branch == get_item(queue)
               children == Children(branch)
               last_token == branch.tokens[Len(branch.tokens)]
           IN  /\ branch.tokens # <<>>
               /\ \A k \in 1..Len(children) :
                     LET appended == children[k].tokens[Len(children[k].tokens)]
                     IN  /\ children[k].tokens = Append(branch.tokens, appended)
                         /\ appended.line = last_token.line
                         /\ appended.column
                               = last_token.column + Len(last_token.value)

\* C38: the cursor of the branch an iteration takes, of every branch it puts
\* and of the candidate lies between 0 and the number of the branch's
\* tokens, and an append at the end of the tokens finds a last token to take
\* the position from.
C38_CursorInBounds ==
    /\ \A n \in 1..Len(HeldBranches) : CursorInBounds(HeldBranches[n])
    /\ AppendsBehindLast

\* a second token is appended behind a synthetic one
C38_Witness ==
    /\ pc = "validate" /\ queue # <<>>
    /\ LET branch == get_item(queue)
       IN  /\ AtEnd(branch) /\ ~IsAccepting(branch)
           /\ branch.changes # <<>>
           /\ branch.changes[Len(branch.changes)][1] = "insert"
           /\ branch.changes[Len(branch.changes)][2] = Len(branch.tokens) - 1
           /\ Children(branch) # <<>>

=============================================================================
